---- MODULE Spec2Model ----
(***************************************************************************)
(* Ghost "Conscience Kernel": the action validator, the gRPC GhostService, *)
(* the state / intent-history / action repositories and the HTTP           *)
(* permission endpoints, as state machines.                                *)
(*                                                                         *)
(* Go strings are sequences of one-character strings, so that ToLower,     *)
(* ToUpper, HasPrefix, Contains and filepath.Clean are computed character  *)
(* by character.  filepath is the Unix one ('/' is the only separator).    *)
(***************************************************************************)
EXTENDS Integers, Sequences, FiniteSets, TLC

\* ------------------------------------------------------------------ bounds
MaxPathLen == 3
MaxActions == 2
MaxCalls == 2
MaxProposals == 2
MaxDrain == 3
MaxConns == 1
MaxFrames == 3
PriorSubmissions == 4
MaxValidations == 3
MaxStreams == 2

\* ------------------------------------------------------- program constants
RiskLevelNone == 0
RiskLevelLow == 1
RiskLevelMedium == 3
RiskLevelHigh == 7
RiskLevelCritical == 10
ActionChanCap == 100
AuditLogMax == 1000
AuditLogKeep == 500
AutoApproveRisk == 30
TokenLen == 64
ErrCodeParseError == 0 - 32700
ErrCodeInvalidRequest == 0 - 32600
ErrCodeMethodNotFound == 0 - 32601
ErrCodeInvalidParams == 0 - 32602
ErrCodeInternalError == 0 - 32603
ErrCodeAuthFailed == 0 - 32001
ErrCodePermissionDenied == 0 - 32002

\* ----------------------------------------------------------------- strings
UpperChars == <<"A","B","C","D","E","F","G","H","I","J","K","L","M",
                "N","O","P","Q","R","S","T","U","V","W","X","Y","Z">>
LowerChars == <<"a","b","c","d","e","f","g","h","i","j","k","l","m",
                "n","o","p","q","r","s","t","u","v","w","x","y","z">>

ToLowerChar(c) ==
    IF \E i \in 1..26 : UpperChars[i] = c
    THEN LowerChars[CHOOSE i \in 1..26 : UpperChars[i] = c]
    ELSE c

ToUpperChar(c) ==
    IF \E i \in 1..26 : LowerChars[i] = c
    THEN UpperChars[CHOOSE i \in 1..26 : LowerChars[i] = c]
    ELSE c

ToLower(s) == [i \in 1..Len(s) |-> ToLowerChar(s[i])]

ToUpper(s) == [i \in 1..Len(s) |-> ToUpperChar(s[i])]

HasPrefix(s, p) == Len(s) >= Len(p) /\ SubSeq(s, 1, Len(p)) = p

Contains(s, sub) ==
    \E k \in 0..(Len(s) - Len(sub)) : SubSeq(s, k + 1, k + Len(sub)) = sub

RECURSIVE Concat(_)
Concat(ss) == IF ss = <<>> THEN <<>> ELSE Head(ss) \o Concat(Tail(ss))

\* ------------------------------------------------------ path/filepath (Unix)
IsAbs(path) == HasPrefix(path, <<"/">>)

\* The '/'-separated elements of a path, empty elements included.
RECURSIVE SplitPath(_, _)
SplitPath(path, cur) ==
    IF path = <<>> THEN <<cur>>
    ELSE IF Head(path) = "/" THEN <<cur>> \o SplitPath(Tail(path), <<>>)
    ELSE SplitPath(Tail(path), Append(cur, Head(path)))

\* filepath.Clean's element loop: out is the stack of kept elements.
RECURSIVE CleanElems(_, _, _)
CleanElems(elems, out, rooted) ==
    IF elems = <<>> THEN out
    ELSE LET e == Head(elems)
             rest == Tail(elems)
         IN IF e = <<>> \/ e = <<".">> THEN CleanElems(rest, out, rooted)
            ELSE IF e = <<".", ".">>
            THEN IF Len(out) > 0 /\ out[Len(out)] # <<".", ".">>
                 THEN CleanElems(rest, SubSeq(out, 1, Len(out) - 1), rooted)
                 ELSE IF rooted THEN CleanElems(rest, out, rooted)
                 ELSE CleanElems(rest, Append(out, e), rooted)
            ELSE CleanElems(rest, Append(out, e), rooted)

RECURSIVE JoinPath(_)
JoinPath(elems) ==
    IF elems = <<>> THEN <<>>
    ELSE IF Len(elems) = 1 THEN elems[1]
    ELSE elems[1] \o <<"/">> \o JoinPath(Tail(elems))

Clean(path) ==
    IF path = <<>> THEN <<".">>
    ELSE LET rooted == Head(path) = "/"
             out == CleanElems(SplitPath(path, <<>>), <<>>, rooted)
         IN IF rooted THEN <<"/">> \o JoinPath(out)
            ELSE IF out = <<>> THEN <<".">>
            ELSE JoinPath(out)

validateFileSystemPath(path) ==
    IF HasPrefix(path, <<"/">>) \/ HasPrefix(path, <<"\\">>)
       \/ (Len(path) > 1 /\ path[2] = ":")
    THEN FALSE
    ELSE IF IsAbs(path) THEN FALSE
    ELSE LET cleanPath == Clean(path)
         IN IF HasPrefix(cleanPath, <<".", ".">>) \/ IsAbs(cleanPath) THEN FALSE
            ELSE IF Len(cleanPath) > 1 /\ cleanPath[2] = ":" THEN FALSE
            ELSE TRUE

\* ------------------------------------------------- validator.go tables
\* Action type names, spelled as Go strings.
T_DELETE == <<"D","E","L","E","T","E">>
T_SUBMIT == <<"S","U","B","M","I","T">>
T_TYPE == <<"T","Y","P","E">>
T_CLICK == <<"C","L","I","C","K">>
T_KEY == <<"K","E","Y">>
T_HOTKEY == <<"H","O","T","K","E","Y">>
T_OPEN_URL == <<"O","P","E","N","_","U","R","L">>
T_SCROLL == <<"S","C","R","O","L","L">>
T_SCREENSHOT == <<"S","C","R","E","E","N","S","H","O","T">>
T_WAIT == <<"W","A","I","T">>
T_FOCUS == <<"F","O","C","U","S">>
T_FILE_WRITE == <<"F","I","L","E","_","W","R","I","T","E">>
T_FILE_DELETE == <<"F","I","L","E","_","D","E","L","E","T","E">>
T_EXECUTE == <<"E","X","E","C","U","T","E">>
T_WRITE == <<"W","R","I","T","E">>
T_EDIT == <<"E","D","I","T">>
T_READ == <<"R","E","A","D">>
T_LIST == <<"L","I","S","T">>
T_SEARCH == <<"S","E","A","R","C","H">>
T_SCAN == <<"S","C","A","N">>
T_SPEAK == <<"S","P","E","A","K">>
T_MEMORIZE == <<"M","E","M","O","R","I","Z","E">>

K_path == <<"p","a","t","h">>
K_directory == <<"d","i","r","e","c","t","o","r","y">>
K_text == <<"t","e","x","t">>

BlockedKeywords == <<
    <<"p","a","s","s","w","o","r","d">>,
    <<"c","r","e","d","e","n","t","i","a","l">>,
    <<"s","e","c","r","e","t">>,
    <<"a","p","i","_","k","e","y">>,
    <<"t","o","k","e","n">>,
    <<"c","r","e","d","i","t","_","c","a","r","d">>,
    <<"s","s","n">>,
    <<"s","o","c","i","a","l","_","s","e","c","u","r","i","t","y">>,
    <<"d","e","l","e","t","e","_","a","l","l">>,
    <<"d","r","o","p","_","t","a","b","l","e">>,
    <<"r","m"," ","-","r","f">>,
    <<"f","o","r","m","a","t">>,
    <<"f","d","i","s","k">>
>>

\* The type -> risk table, as the set of its <<key, value>> entries.
DangerousActionTypes == {
    <<T_DELETE, RiskLevelHigh>>,
    <<T_SUBMIT, RiskLevelMedium>>,
    <<T_TYPE, RiskLevelLow>>,
    <<T_CLICK, RiskLevelLow>>,
    <<T_KEY, RiskLevelLow>>,
    <<T_HOTKEY, RiskLevelMedium>>,
    <<T_OPEN_URL, RiskLevelMedium>>,
    <<T_SCROLL, RiskLevelNone>>,
    <<T_SCREENSHOT, RiskLevelNone>>,
    <<T_WAIT, RiskLevelNone>>,
    <<T_FOCUS, RiskLevelNone>>,
    <<T_FILE_WRITE, RiskLevelHigh>>,
    <<T_FILE_DELETE, RiskLevelCritical>>,
    <<T_EXECUTE, RiskLevelCritical>>,
    <<T_WRITE, RiskLevelHigh>>,
    <<T_EDIT, RiskLevelHigh>>,
    <<T_READ, RiskLevelMedium>>,
    <<T_LIST, RiskLevelLow>>,
    <<T_SEARCH, RiskLevelLow>>,
    <<T_SCAN, RiskLevelNone>>,
    <<T_SPEAK, RiskLevelNone>>,
    <<T_MEMORIZE, RiskLevelNone>>
}

AllowedActionTypes == {
    T_KEY, T_TYPE, T_CLICK, T_WAIT, T_SPEAK, T_MEMORIZE,
    T_SCAN, T_LIST, T_READ, T_SEARCH, T_WRITE, T_EDIT
}

\* ------------------------------------------------------------ JSON payloads
\* A LegacyAction payload (json.RawMessage): raw says what bytes it holds,
\*   "none"   no bytes,
\*   "null"   the text null (json.Marshal of a nil map),
\*   "object" a JSON object of the fields, keys in sorted order,
\*   "broken" that object's text cut before the closing brace.
\* A field is [key, str, val]: str tells a JSON string from a bare literal.
NoPayload == [raw |-> "none", fields |-> <<>>]

NullPayload == [raw |-> "null", fields |-> <<>>]

ObjectPayload(fields) == [raw |-> "object", fields |-> fields]

BrokenPayload(fields) == [raw |-> "broken", fields |-> fields]

StrField(key, val) == [key |-> key, str |-> TRUE, val |-> val]

LitField(key, val) == [key |-> key, str |-> FALSE, val |-> val]

EscapeChar(c) ==
    IF c = "\\" THEN <<"\\", "\\">>
    ELSE IF c = "\"" THEN <<"\\", "\"">>
    ELSE <<c>>

EncodeString(str) ==
    <<"\"">> \o Concat([i \in 1..Len(str) |-> EscapeChar(str[i])]) \o <<"\"">>

EncodeField(f) ==
    EncodeString(f.key) \o <<":">>
        \o (IF f.str THEN EncodeString(f.val) ELSE f.val)

RECURSIVE EncodeFields(_)
EncodeFields(fields) ==
    IF fields = <<>> THEN <<>>
    ELSE IF Len(fields) = 1 THEN EncodeField(fields[1])
    ELSE EncodeField(fields[1]) \o <<",">> \o EncodeFields(Tail(fields))

EncodeObject(fields) == <<"{">> \o EncodeFields(fields) \o <<"}">>

PayloadBytes(p) ==
    CASE p.raw = "none" -> <<>>
      [] p.raw = "null" -> <<"n","u","l","l">>
      [] p.raw = "object" -> EncodeObject(p.fields)
      [] OTHER -> SubSeq(EncodeObject(p.fields), 1, Len(EncodeObject(p.fields)) - 1)

UnmarshalOk(p) == p.raw \in {"null", "object"}

HasKey(p, key) == \E i \in 1..Len(p.fields) : p.fields[i].key = key

GetField(p, key) == p.fields[CHOOSE i \in 1..Len(p.fields) : p.fields[i].key = key]

\* ------------------------------------------------------ validator.go rules
NoErr == [fmt |-> "", s |-> <<>>]

Errorf(fmt, s) == [fmt |-> fmt, s |-> s]

checkPath(payload, key) ==
    IF ~HasKey(payload, key) THEN Errorf("missing required key '%s'", key)
    ELSE IF ~GetField(payload, key).str THEN Errorf("key '%s' must be a string", key)
    ELSE IF ~validateFileSystemPath(GetField(payload, key).val)
    THEN Errorf("invalid path '%s' (must be relative and safe)", GetField(payload, key).val)
    ELSE NoErr

validateActionPath(action) ==
    LET actionType == ToUpper(action.Type)
    IN IF Len(PayloadBytes(action.Payload)) > 0 /\ ~UnmarshalOk(action.Payload)
       THEN Errorf("invalid payload json", <<>>)
       ELSE IF Len(PayloadBytes(action.Payload)) = 0
       THEN IF actionType \in {T_WRITE, T_EDIT, T_READ, T_LIST, T_SEARCH}
            THEN Errorf("missing payload for action type '%s'", actionType)
            ELSE NoErr
       ELSE IF actionType \in {T_WRITE, T_EDIT, T_READ}
       THEN checkPath(action.Payload, K_path)
       ELSE IF actionType = T_LIST
       THEN IF HasKey(action.Payload, K_directory)
            THEN checkPath(action.Payload, K_directory)
            ELSE checkPath(action.Payload, K_path)
       ELSE IF actionType = T_SEARCH
       THEN checkPath(action.Payload, K_directory)
       ELSE NoErr

evaluateActionRisk(action) ==
    IF action.RiskLevel > RiskLevelNone THEN action.RiskLevel
    ELSE IF \E e \in DangerousActionTypes : e[1] = ToUpper(action.Type)
    THEN (CHOOSE e \in DangerousActionTypes : e[1] = ToUpper(action.Type))[2]
    ELSE RiskLevelLow

containsBlockedKeyword(action) ==
    \/ \E k \in 1..Len(BlockedKeywords) :
          Contains(ToLower(action.Target), BlockedKeywords[k])
    \/ /\ Len(PayloadBytes(action.Payload)) > 0
       /\ \E k \in 1..Len(BlockedKeywords) :
             Contains(ToLower(PayloadBytes(action.Payload)), BlockedKeywords[k])

getTrustScore(trust, intent) ==
    IF intent \in DOMAIN trust THEN trust[intent] ELSE 0

\* A Reason is the format string with its arguments (fmt.Sprintf unexpanded).
Reason(fmt, s1, s2, d, err) == [fmt |-> fmt, s1 |-> s1, s2 |-> s2, d |-> d, err |-> err]

NoReason == Reason("", <<>>, <<>>, 0, NoErr)

ValidationResult(valid, blocked, reason, risk, override, trust) ==
    [Valid |-> valid, Blocked |-> blocked, Reason |-> reason,
     RiskLevel |-> risk, Override |-> override, TrustScore |-> trust]

\* The three per-action checks of the loop, for the action at Go index i.
allowlistDenial(req, i) ==
    ValidationResult(FALSE, TRUE,
        Reason("Action type '%s' is not allowed", req.Actions[i + 1].Type, <<>>, 0, NoErr),
        RiskLevelCritical, FALSE, 0)

pathDenial(req, i) ==
    ValidationResult(FALSE, TRUE,
        Reason("Path validation failed for action %d: %v", <<>>, <<>>, i,
               validateActionPath(req.Actions[i + 1])),
        RiskLevelCritical, FALSE, 0)

keywordDenial(req, i, trust) ==
    ValidationResult(FALSE, TRUE,
        Reason("Action %d contains blocked keyword pattern", <<>>, <<>>, i, NoErr),
        RiskLevelCritical, req.Override, getTrustScore(trust, req.Intent))

\* The running risk as the latest action's risk instead of the maximum.
LatestRisk(a, b) == b

Max(a, b) == IF a > b THEN a ELSE b

\* The override gate with the strict comparison its comment states ("> High").
stateDependentValidationStrict(req, maxRisk, focused, trust) ==
    IF maxRisk > RiskLevelHigh /\ ~req.Override
    THEN ValidationResult(FALSE, TRUE,
             Reason("High risk action (level %d) requires explicit override",
                    <<>>, <<>>, maxRisk, NoErr),
             maxRisk, req.Override, getTrustScore(trust, req.Intent))
    ELSE IF /\ req.ExpectedWindow # <<>>
            /\ focused # <<>>
            /\ ~Contains(ToLower(focused), ToLower(req.ExpectedWindow))
    THEN ValidationResult(FALSE, TRUE,
             Reason("Focus mismatch: expected '%s', got '%s'",
                    req.ExpectedWindow, focused, 0, NoErr),
             maxRisk, req.Override, getTrustScore(trust, req.Intent))
    ELSE ValidationResult(TRUE, FALSE, NoReason,
             maxRisk, req.Override, getTrustScore(trust, req.Intent))

\* The override gate waived for an intent whose trust has reached 50.
stateDependentValidationTrusting(req, maxRisk, focused, trust) ==
    IF maxRisk >= RiskLevelHigh /\ ~req.Override /\ getTrustScore(trust, req.Intent) < 50
    THEN ValidationResult(FALSE, TRUE,
             Reason("High risk action (level %d) requires explicit override",
                    <<>>, <<>>, maxRisk, NoErr),
             maxRisk, req.Override, getTrustScore(trust, req.Intent))
    ELSE IF /\ req.ExpectedWindow # <<>>
            /\ focused # <<>>
            /\ ~Contains(ToLower(focused), ToLower(req.ExpectedWindow))
    THEN ValidationResult(FALSE, TRUE,
             Reason("Focus mismatch: expected '%s', got '%s'",
                    req.ExpectedWindow, focused, 0, NoErr),
             maxRisk, req.Override, getTrustScore(trust, req.Intent))
    ELSE ValidationResult(TRUE, FALSE, NoReason,
             maxRisk, req.Override, getTrustScore(trust, req.Intent))

\* Part 2 of ValidateAction: the override gate, then the focus gate.
stateDependentValidation(req, maxRisk, focused, trust) ==
    IF maxRisk >= RiskLevelHigh /\ ~req.Override
    THEN ValidationResult(FALSE, TRUE,
             Reason("High risk action (level %d) requires explicit override",
                    <<>>, <<>>, maxRisk, NoErr),
             maxRisk, req.Override, getTrustScore(trust, req.Intent))
    ELSE IF /\ req.ExpectedWindow # <<>>
            /\ focused # <<>>
            /\ ~Contains(ToLower(focused), ToLower(req.ExpectedWindow))
    THEN ValidationResult(FALSE, TRUE,
             Reason("Focus mismatch: expected '%s', got '%s'",
                    req.ExpectedWindow, focused, 0, NoErr),
             maxRisk, req.Override, getTrustScore(trust, req.Intent))
    ELSE ValidationResult(TRUE, FALSE, NoReason,
             maxRisk, req.Override, getTrustScore(trust, req.Intent))

\* ------------------------------------------------- rule order (ValidateAction)
FmtAllowlist == "Action type '%s' is not allowed"

FmtPath == "Path validation failed for action %d: %v"

FmtKeyword == "Action %d contains blocked keyword pattern"

FmtOverride == "High risk action (level %d) requires explicit override"

FmtFocus == "Focus mismatch: expected '%s', got '%s'"

FailsAllowlist(a) == ToUpper(a.Type) \notin AllowedActionTypes

FailsPath(a) == validateActionPath(a) # NoErr

FailsKeyword(a) == containsBlockedKeyword(a)

FailsSomeRule(a) == FailsAllowlist(a) \/ FailsPath(a) \/ FailsKeyword(a)

FirstRuleFailed(a) ==
    IF FailsAllowlist(a) THEN FmtAllowlist
    ELSE IF FailsPath(a) THEN FmtPath
    ELSE FmtKeyword

FailingActions(req) == {i \in 1..Len(req.Actions) : FailsSomeRule(req.Actions[i])}

FirstFailing(req) ==
    CHOOSE i \in FailingActions(req) : \A j \in FailingActions(req) : i <= j

ProposalRisk(req) ==
    IF req.Actions = <<>> THEN RiskLevelNone
    ELSE CHOOSE r \in {evaluateActionRisk(req.Actions[i]) : i \in 1..Len(req.Actions)} :
            \A i \in 1..Len(req.Actions) : evaluateActionRisk(req.Actions[i]) <= r

\* The order the claim states: each rule over all actions before the next rule.
validateRuleByRule(req, i, maxRisk, focused, trust) ==
    LET n == Len(req.Actions)
        first(F(_)) == CHOOSE k \in 1..n :
                           F(req.Actions[k]) /\ \A j \in 1..(k - 1) : ~F(req.Actions[j])
    IN IF \E k \in 1..n : FailsAllowlist(req.Actions[k])
       THEN allowlistDenial(req, first(FailsAllowlist) - 1)
       ELSE IF \E k \in 1..n : FailsPath(req.Actions[k])
       THEN pathDenial(req, first(FailsPath) - 1)
       ELSE IF \E k \in 1..n : FailsKeyword(req.Actions[k])
       THEN keywordDenial(req, first(FailsKeyword) - 1, trust)
       ELSE stateDependentValidation(req, ProposalRisk(req), focused, trust)

\* The loop with a path check that an override switches off.
RECURSIVE validateFromOverridable(_, _, _, _, _)
validateFromOverridable(req, i, maxRisk, focused, trust) ==
    IF i >= Len(req.Actions)
    THEN stateDependentValidation(req, maxRisk, focused, trust)
    ELSE LET action == req.Actions[i + 1]
         IN IF ToUpper(action.Type) \notin AllowedActionTypes
            THEN allowlistDenial(req, i)
            ELSE IF validateActionPath(action) # NoErr /\ ~req.Override
            THEN pathDenial(req, i)
            ELSE IF containsBlockedKeyword(action)
            THEN keywordDenial(req, i, trust)
            ELSE validateFromOverridable(req, i + 1,
                     Max(maxRisk, evaluateActionRisk(action)), focused, trust)

\* Part 1 of ValidateAction: the loop over req.Actions from Go index i on.
RECURSIVE validateFrom(_, _, _, _, _)
validateFrom(req, i, maxRisk, focused, trust) ==
    IF i >= Len(req.Actions)
    THEN stateDependentValidation(req, maxRisk, focused, trust)
    ELSE LET action == req.Actions[i + 1]
         IN IF ToUpper(action.Type) \notin AllowedActionTypes
            THEN allowlistDenial(req, i)
            ELSE IF validateActionPath(action) # NoErr
            THEN pathDenial(req, i)
            ELSE IF containsBlockedKeyword(action)
            THEN keywordDenial(req, i, trust)
            ELSE validateFrom(req, i + 1, Max(maxRisk, evaluateActionRisk(action)),
                              focused, trust)

NilRequest == [nil |-> TRUE]

NilResult == ValidationResult(FALSE, TRUE,
                 Reason("Nil validation request", <<>>, <<>>, 0, NoErr),
                 RiskLevelNone, FALSE, 0)

\* The result ValidateAction returns.
validateResult(req, focused, trust) ==
    IF req = NilRequest THEN NilResult
    ELSE validateFrom(req, 0, RiskLevelNone, focused, trust)

AuditEntry(req, result) ==
    [RequestID |-> req.RequestID, Intent |-> req.Intent,
     RiskLevel |-> result.RiskLevel, Blocked |-> result.Blocked,
     Reason |-> result.Reason, Override |-> result.Override]

\* A trim that keeps the oldest entries.
logAuditOldest(log, req, result) ==
    LET appended == Append(log, AuditEntry(req, result))
    IN IF Len(appended) > AuditLogMax
       THEN SubSeq(appended, 1, AuditLogKeep)
       ELSE appended

logAudit(log, req, result) ==
    LET appended == Append(log, AuditEntry(req, result))
    IN IF Len(appended) > AuditLogMax
       THEN SubSeq(appended, Len(appended) - AuditLogKeep + 1, Len(appended))
       ELSE appended

\* The audit log ValidateAction leaves: the nil-request exit logs nothing.
auditAfter(log, req, result) ==
    IF req = NilRequest THEN log ELSE logAudit(log, req, result)

\* Resolved stands for ResolvedAt being set.
PendingRequest(req) == [ID |-> req.RequestID, Request |-> req, Resolved |-> FALSE,
                        Approved |-> FALSE, Reason |-> <<>>]

\* The pendingRequests map ValidateAction leaves: only the approving exit stores.
pendingAfter(pending, req, result) ==
    IF result.Valid
    THEN [id \in DOMAIN pending \cup {req.RequestID} |->
             IF id = req.RequestID THEN PendingRequest(req) ELSE pending[id]]
    ELSE pending

\* ------------------------------------------------------------------ state
VARIABLES
    \* conscience.Validator
    focusedWindow,      \* v.focusedWindow
    pendingRequests,    \* v.pendingRequests: RequestID -> PendingRequest
    trustScores,        \* v.trustScores: intent -> score
    auditLog,           \* v.auditLog
    \* a direct caller of Validator.ValidateAction
    vreq,               \* the request it passes
    vdone,              \* whether the call has returned
    vres,               \* the result it got
    \* service.GhostService
    focusState,         \* s.focusState.WindowTitle
    actionChan,         \* s.actionChan
    calls,              \* RequestPermission calls: where each one stands
    recorders,          \* the RecordSuccess goroutines the calls spawned
    sent,               \* commands StreamActions has sent to the Sentinel
    streams,            \* the StreamActions handlers running, one per client stream
    \* adapter repositories
    appState,           \* StateRepository: the cached system mode
    dbState,            \* StateRepository: the persisted system mode
    setters,            \* StateRepository: SetState calls between their two writes
    intentHistory,      \* intent_history rows: <<intent, window>> -> row
    proposals,          \* action_proposals rows: id -> row
    userModes,          \* user_modes rows: domain -> mode
    httpCalls,          \* HTTP handlers between two database statements
    \* gateway.Server and the process that starts it
    tokenFiles,         \* the token files main reads: path -> content
    authToken,          \* s.authToken
    clients             \* the connections accepted: where each Client stands

validatorVars == <<focusedWindow, pendingRequests, trustScores, auditLog>>

callerVars == <<vreq, vdone, vres>>

serviceVars == <<focusState, actionChan, calls, recorders, sent, streams>>

repoVars == <<appState, dbState, setters, intentHistory, proposals, userModes, httpCalls>>

gatewayVars == <<tokenFiles, authToken, clients>>

vars == <<validatorVars, callerVars, serviceVars, repoVars, gatewayVars>>

\* ----------------------------------------------------------- sample inputs
W_Unknown == <<"U","n","k","n","o","w","n">>
W_Notepad == <<"N","o","t","e","p","a","d">>
W_Chrome == <<"C","h","r","o","m","e">>
W_notepad == <<"n","o","t","e","p","a","d">>
I_open == <<"o","p","e","n"," ","n","o","t","e","s">>
I_delete == <<"D","e","l","e","t","e"," ","f","i","l","e","s">>
V_hello == <<"h","e","l","l","o">>
V_token == <<"m","y"," ","T","o","k","e","n">>
V_a == <<"a">>
V_abs == <<"/", "a">>
V_one == <<"1">>
T_read == <<"r","e","a","d">>

PathChars == {"a", ".", "/", "\\", ":"}

Paths == UNION {[1..n -> PathChars] : n \in 0..MaxPathLen}

Action(type, target, payload, risk) ==
    [Type |-> type, Target |-> target, Payload |-> payload, RiskLevel |-> risk]

\* One file action per type, key and path.
PathActions ==
    {Action(t, <<>>, ObjectPayload(<<StrField(k, p)>>), RiskLevelNone) :
        t \in {T_READ, T_WRITE, T_EDIT, T_LIST, T_SEARCH},
        k \in {K_path, K_directory},
        p \in Paths}

\* A few actions that between them trip every rule, or none.
MixedActions == {
    Action(T_TYPE, <<>>, ObjectPayload(<<StrField(K_text, V_hello)>>), RiskLevelNone),
    Action(T_TYPE, <<>>, ObjectPayload(<<StrField(K_text, V_token)>>), RiskLevelNone),
    Action(T_CLICK, V_token, NoPayload, RiskLevelNone),
    Action(T_CLICK, <<>>, NoPayload, RiskLevelHigh),
    Action(T_CLICK, <<>>, NoPayload, 0 - 1),
    Action(T_WRITE, <<>>, ObjectPayload(<<StrField(K_path, V_a)>>), RiskLevelLow),
    Action(T_EXECUTE, <<>>, NoPayload, RiskLevelNone),
    Action(T_read, <<>>, ObjectPayload(<<StrField(K_path, V_a)>>), RiskLevelNone),
    Action(T_READ, <<>>, ObjectPayload(<<StrField(K_path, V_abs)>>), RiskLevelNone),
    Action(T_READ, <<>>, ObjectPayload(<<LitField(K_path, V_one)>>), RiskLevelNone),
    Action(T_READ, <<>>, NoPayload, RiskLevelNone),
    Action(T_READ, <<>>, NullPayload, RiskLevelNone),
    Action(T_TYPE, <<>>, BrokenPayload(<<StrField(K_text, V_hello)>>), RiskLevelNone),
    Action(T_WRITE, <<>>, ObjectPayload(<<StrField(K_path, V_a)>>), RiskLevelNone),
    Action(T_LIST, <<>>, ObjectPayload(<<StrField(K_directory, V_abs),
                                         StrField(K_path, V_a)>>), RiskLevelNone),
    Action(T_SEARCH, <<>>, ObjectPayload(<<StrField(K_path, V_a)>>), RiskLevelNone)
}

ValidationRequest(id, intent, actions, expected, override) ==
    [RequestID |-> id, Intent |-> intent, Actions |-> actions,
     ExpectedWindow |-> expected, Override |-> override]

ActionLists == UNION {[1..n -> MixedActions] : n \in 0..MaxActions}

V_delete == <<"d","e","l","e","t","e">>

\* One typed or spoken text per request, under a harmless or a "delete" intent.
KeywordRequests ==
    {ValidationRequest("req", in,
         <<Action(t, <<>>, ObjectPayload(<<StrField(K_text, v)>>), RiskLevelNone)>>,
         <<>>, o) :
        t \in {T_TYPE, T_SPEAK}, v \in {V_hello, V_delete, V_token},
        in \in {I_open, I_delete}, o \in BOOLEAN}

DirectRequests ==
    {ValidationRequest("req", I_open, <<a>>, <<>>, o) :
        a \in PathActions, o \in BOOLEAN}
    \cup {ValidationRequest("req", I_open, as, w, o) :
        as \in ActionLists, w \in {<<>>, W_notepad}, o \in BOOLEAN}
    \cup KeywordRequests
    \cup {NilRequest}

\* ----------------------------------------------------------- construction
\* NewValidator.
InitValidator ==
    /\ focusedWindow = <<>>
    /\ pendingRequests = <<>>
    /\ trustScores = <<>>
    /\ auditLog = <<>>

\* NewGhostService; no RequestPermission call, goroutine or stream exists yet.
InitService ==
    /\ focusState = W_Unknown
    /\ actionChan = <<>>
    /\ calls = <<>>
    /\ recorders = <<>>
    /\ sent = <<>>
    /\ streams = <<>>

\* A path that has no file.
NoFile == <<"<absent>">>

\* strings.TrimSpace
RECURSIVE TrimSpace(_)
TrimSpace(str) ==
    LET space == {" ", "\n", "\t", "\r"}
    IN IF str = <<>> THEN str
       ELSE IF Head(str) \in space THEN TrimSpace(Tail(str))
       ELSE IF str[Len(str)] \in space THEN TrimSpace(SubSeq(str, 1, Len(str) - 1))
       ELSE str

\* main: the token is read from ../ghost.token, else from ghost.token, else it
\* is the empty string.
loadAuthToken(files) ==
    IF files["../ghost.token"] # NoFile THEN TrimSpace(files["../ghost.token"])
    ELSE IF files["ghost.token"] # NoFile THEN TrimSpace(files["ghost.token"])
    ELSE <<>>

\* main started in a directory with no token file, and gateway.NewServer: no
\* connection is accepted yet.
InitGateway ==
    /\ tokenFiles = [f \in {"../ghost.token", "ghost.token"} |-> NoFile]
    /\ authToken = loadAuthToken(tokenFiles)
    /\ clients = <<>>

\* NewStateRepository, NewIntentHistoryRepository, NewActionRepository.
InitRepos ==
    /\ appState = "SHADOW"
    /\ dbState = "SHADOW"
    /\ setters = <<>>
    /\ httpCalls = <<>>
    /\ intentHistory = <<>>
    /\ proposals = <<>>
    /\ userModes = [d \in {"*"} |-> "AUTO"]

\* ------------------------------------------- Validator, called directly
SetFocusedWindow(window) ==
    /\ focusedWindow' = window
    /\ UNCHANGED <<pendingRequests, trustScores, auditLog>>

\* Validator.ValidateAction(req): the result, the audit entry, the pending entry.
ValidateAction(req) ==
    LET result == validateResult(req, focusedWindow, trustScores)
    IN /\ auditLog' = auditAfter(auditLog, req, result)
       /\ pendingRequests' = pendingAfter(pendingRequests, req, result)
       /\ UNCHANGED <<focusedWindow, trustScores>>

\* Validator.ResolveRequest, and Validator.ResolveApproval which only calls it:
\* an id with no pending request returns an error; else the request is
\* marked resolved with the decision and its reason, resolved before or not.
ResolveRequest(requestID, approved, reason) ==
    /\ IF requestID \in DOMAIN pendingRequests
       THEN pendingRequests' = [pendingRequests EXCEPT
                ![requestID].Resolved = TRUE,
                ![requestID].Approved = approved,
                ![requestID].Reason = reason]
       ELSE UNCHANGED pendingRequests
    /\ UNCHANGED <<focusedWindow, trustScores, auditLog>>

T_UNKNOWN == <<"U","N","K","N","O","W","N">>

MalformedJSONFallback ==
    <<"M","A","L","F","O","R","M","E","D","_","J","S","O","N","_",
      "F","A","L","L","B","A","C","K">>

\* The ActionValidationRequest Validator.RequestApproval builds of an
\* exec.request: actions that do not decode as a list become one UNKNOWN
\* action carrying the raw bytes, Override is false, and an empty RequestID is
\* replaced by a new one.
approvalRequest(p) ==
    ValidationRequest(IF p.RequestID = "" THEN "uuid" ELSE p.RequestID,
        p.Intent,
        IF p.ActionsOk THEN p.Actions
        ELSE <<Action(T_UNKNOWN, MalformedJSONFallback, p.Raw, p.RiskLevel)>>,
        p.ExpectedWindow, FALSE)

\* The exec.request params given to Validator.RequestApproval in this model.
ApprovalParams == {
    [RequestID |-> "", Intent |-> I_open, ActionsOk |-> TRUE,
     Actions |-> <<Action(T_TYPE, <<>>, ObjectPayload(<<StrField(K_text, V_hello)>>),
                          RiskLevelNone)>>,
     Raw |-> NoPayload, ExpectedWindow |-> <<>>, RiskLevel |-> RiskLevelLow],
    [RequestID |-> "req", Intent |-> I_open, ActionsOk |-> FALSE, Actions |-> <<>>,
     Raw |-> ObjectPayload(<<StrField(K_text, V_hello)>>), ExpectedWindow |-> <<>>,
     RiskLevel |-> RiskLevelMedium]
}

InitV ==
    /\ InitValidator /\ InitService /\ InitRepos /\ InitGateway
    /\ vreq \in DirectRequests
    /\ vdone = FALSE
    /\ vres = NilResult

V_SetFocusedWindow ==
    /\ ~vdone
    /\ \E w \in {W_Notepad, W_Chrome} : SetFocusedWindow(w)
    /\ UNCHANGED <<gatewayVars, callerVars, serviceVars, repoVars>>

V_ValidateAction ==
    /\ ~vdone
    /\ ValidateAction(vreq)
    /\ vres' = validateResult(vreq, focusedWindow, trustScores)
    /\ vdone' = TRUE
    /\ UNCHANGED <<gatewayVars, vreq, serviceVars, repoVars>>

\* Validator.RequestApproval(p): the caller's request is the one it builds.
V_RequestApproval ==
    /\ ~vdone
    /\ \E p \in ApprovalParams :
          /\ ValidateAction(approvalRequest(p))
          /\ vreq' = approvalRequest(p)
          /\ vres' = validateResult(approvalRequest(p), focusedWindow, trustScores)
    /\ vdone' = TRUE
    /\ UNCHANGED <<gatewayVars, serviceVars, repoVars>>

\* The user's decision on the request, or on one that was never pending.
V_ResolveRequest ==
    /\ vdone
    /\ \E id \in {"req", "uuid", "none"}, approved \in BOOLEAN :
          ResolveRequest(id, approved, IF approved THEN <<>> ELSE V_hello)
    /\ UNCHANGED <<gatewayVars, callerVars, serviceVars, repoVars>>

NextV == V_SetFocusedWindow \/ V_ValidateAction \/ V_RequestApproval \/ V_ResolveRequest

SpecV == InitV /\ [][NextV]_vars

\* ------------------------------- the validator with its audit log nearly full
\* The decimal digits of n, as a string.
RECURSIVE Decimal(_)
Decimal(n) ==
    LET digits == <<"0", "1", "2", "3", "4", "5", "6", "7", "8", "9">>
    IN IF n < 10 THEN <<digits[n + 1]>>
       ELSE Decimal(n \div 10) \o <<digits[(n % 10) + 1]>>

\* The i-th request of a caller that has been typing: its intent is its number.
PastRequest(i) ==
    ValidationRequest("req", Decimal(i),
        <<Action(T_TYPE, <<>>, ObjectPayload(<<StrField(K_text, V_hello)>>), RiskLevelNone)>>,
        <<>>, FALSE)

\* The validator after n such requests were validated one after the other on a
\* new validator; the intent has no part in the result, so all have the same.
InitA ==
    /\ \E n \in {AuditLogMax - 2, AuditLogMax - 1, AuditLogMax} :
          /\ auditLog = [i \in 1..n |->
                            AuditEntry(PastRequest(i),
                                       validateResult(PastRequest(1), <<>>, <<>>))]
          /\ pendingRequests = pendingAfter(<<>>, PastRequest(n),
                                             validateResult(PastRequest(1), <<>>, <<>>))
    /\ focusedWindow = <<>>
    /\ trustScores = <<>>
    /\ InitService /\ InitRepos /\ InitGateway
    /\ vreq \in KeywordRequests \cup {NilRequest}
    /\ vdone = FALSE
    /\ vres = NilResult

SpecA == InitA /\ [][NextV]_vars

\* ------------------------- the validator with successes recorded in between
\* Validator.RecordSuccess(intent): ten more, up to 100; ten for a new intent.
RecordSuccess(intent) ==
    /\ trustScores' = [i \in DOMAIN trustScores \cup {intent} |->
           IF i # intent THEN trustScores[i]
           ELSE IF intent \in DOMAIN trustScores
                THEN (IF trustScores[intent] + 10 > 100 THEN 100
                      ELSE trustScores[intent] + 10)
                ELSE 10]
    /\ UNCHANGED <<focusedWindow, pendingRequests, auditLog>>

\* One action per request: a click with the risk level the caller declares
\* for it, or an action that the allowlist, path or keyword rule denies.
RiskRequests ==
    {ValidationRequest("req", I_open, <<Action(T_CLICK, <<>>, NoPayload, r)>>, w, o) :
        r \in {0 - 1, RiskLevelNone, RiskLevelHigh, RiskLevelCritical, RiskLevelCritical + 1},
        w \in {<<>>, W_notepad}, o \in BOOLEAN}
    \cup {ValidationRequest("req", I_open, <<a>>, w, o) :
        a \in {Action(T_EXECUTE, <<>>, NoPayload, RiskLevelNone),
               Action(T_READ, <<>>, ObjectPayload(<<StrField(K_path, V_abs)>>), RiskLevelNone),
               Action(T_TYPE, <<>>, ObjectPayload(<<StrField(K_text, V_token)>>), RiskLevelNone)},
        w \in {<<>>, W_notepad}, o \in BOOLEAN}

\* What a second caller has validated meanwhile.
OtherRequests ==
    {ValidationRequest("other", I_delete,
         <<Action(T_TYPE, <<>>, ObjectPayload(<<StrField(K_text, v)>>), RiskLevelNone)>>,
         <<>>, FALSE) : v \in {V_hello}}

InitT ==
    /\ InitValidator /\ InitService /\ InitRepos /\ InitGateway
    /\ vreq \in RiskRequests
    /\ vdone = FALSE
    /\ vres = NilResult

\* The caller validates vreq: the first time, and again with the same inputs.
T_ValidateAction ==
    /\ Len(auditLog) < MaxValidations
    /\ ValidateAction(vreq)
    /\ vres' = validateResult(vreq, focusedWindow, trustScores)
    /\ vdone' = TRUE
    /\ UNCHANGED <<gatewayVars, vreq, serviceVars, repoVars>>

T_ValidateOther ==
    /\ Len(auditLog) < MaxValidations
    /\ \E r \in OtherRequests : ValidateAction(r)
    /\ UNCHANGED <<gatewayVars, callerVars, serviceVars, repoVars>>

T_RecordSuccess ==
    /\ RecordSuccess(I_open)
    /\ UNCHANGED <<gatewayVars, callerVars, serviceVars, repoVars>>

NextT == V_SetFocusedWindow \/ T_ValidateAction \/ T_ValidateOther \/ T_RecordSuccess

SpecT == InitT /\ [][NextT]_vars

\* ------------------------------------------------- rule order (ValidateAction)
FocusMismatch(req) ==
    /\ req.ExpectedWindow # <<>>
    /\ focusedWindow # <<>>
    /\ ~Contains(ToLower(focusedWindow), ToLower(req.ExpectedWindow))

\* C8 (as amended): ValidateAction checks action by action.  The first action
\* that fails any of allowlist, path, keyword decides the denial, by the first
\* of those three rules it fails, and the reason names that rule; only when no
\* action fails do the override gate and then the focus gate apply, on the
\* maximum risk.  A non-allowlisted action is denied by the allowlist rule
\* unless an earlier action is denied by the path or keyword rule first.
C8_RuleOrderPerAction ==
    (vdone /\ vreq # NilRequest) =>
        IF FailingActions(vreq) # {}
        THEN LET m == FirstFailing(vreq)
             IN /\ ~vres.Valid /\ vres.Blocked
                /\ vres.Reason.fmt = FirstRuleFailed(vreq.Actions[m])
                /\ IF FailsAllowlist(vreq.Actions[m])
                   THEN vres.Reason.s1 = vreq.Actions[m].Type
                   ELSE vres.Reason.d = m - 1
        ELSE IF ProposalRisk(vreq) >= RiskLevelHigh /\ ~vreq.Override
        THEN ~vres.Valid /\ vres.Blocked /\ vres.Reason.fmt = FmtOverride
        ELSE IF FocusMismatch(vreq)
        THEN ~vres.Valid /\ vres.Blocked /\ vres.Reason.fmt = FmtFocus
        ELSE vres.Valid /\ ~vres.Blocked /\ vres.Reason = NoReason

\* C8 witness: a request whose first action has an unsafe path and whose second
\* action is not allowlisted was denied by the path rule.
C8_Witness ==
    /\ vdone /\ vreq # NilRequest
    /\ Len(vreq.Actions) = 2
    /\ ~FailsAllowlist(vreq.Actions[1]) /\ FailsPath(vreq.Actions[1])
    /\ FailsAllowlist(vreq.Actions[2])
    /\ vres.Reason.fmt = FmtPath /\ vres.Reason.d = 0

\* C8 as stated: a request with any non-allowlisted action is denied by the
\* allowlist rule.
C8_AllowlistRuleFirst ==
    (vdone /\ vreq # NilRequest
        /\ \E i \in 1..Len(vreq.Actions) : FailsAllowlist(vreq.Actions[i]))
    => vres.Reason.fmt = FmtAllowlist

\* ------------------------------------------------------ path rule, override
FileActionTypes == {T_READ, T_WRITE, T_EDIT, T_LIST, T_SEARCH}

IsFileAction(a) == ToUpper(a.Type) \in FileActionTypes

\* The key the path rule reads for a file action.
RequiredKey(a) ==
    IF ToUpper(a.Type) = T_SEARCH THEN K_directory
    ELSE IF ToUpper(a.Type) = T_LIST /\ HasKey(a.Payload, K_directory) THEN K_directory
    ELSE K_path

IsLetter(c) == \E i \in 1..26 : c = UpperChars[i] \/ c = LowerChars[i]

\* The conditions the claim puts on the value under the required key.
PathAsRequired(a) ==
    /\ UnmarshalOk(a.Payload)
    /\ HasKey(a.Payload, RequiredKey(a))
    /\ GetField(a.Payload, RequiredKey(a)).str
    /\ LET val == GetField(a.Payload, RequiredKey(a)).val
       IN /\ val # <<>>
          /\ ~HasPrefix(val, <<"/">>) /\ ~HasPrefix(val, <<"\\">>)
          /\ ~(Len(val) > 1 /\ IsLetter(val[1]) /\ val[2] = ":")
          /\ \A k \in 1..Len(SplitPath(Clean(val), <<>>)) :
                 SplitPath(Clean(val), <<>>)[k] # <<".", ".">>

\* C9 as stated: a request with a file action whose required path value is
\* missing, empty, absolute, drive-prefixed or traversing is denied with risk 10.
C9_UnsafePathDenied ==
    (vdone /\ vreq # NilRequest) =>
        \A i \in 1..Len(vreq.Actions) :
            (IsFileAction(vreq.Actions[i]) /\ ~PathAsRequired(vreq.Actions[i]))
            => (~vres.Valid /\ vres.Blocked /\ vres.RiskLevel = RiskLevelCritical)

\* C10: with override set, a request holding a non-allowlisted action or a file
\* action that fails the path rule is still denied, and whenever the same request
\* without override is denied by the allowlist or path rule, the result with
\* override is that very result.
C10_OverrideNeverRescues ==
    (vdone /\ vreq # NilRequest /\ vreq.Override) =>
        LET plain == validateResult([vreq EXCEPT !.Override = FALSE],
                                    focusedWindow, trustScores)
        IN /\ (\E i \in 1..Len(vreq.Actions) :
                   FailsAllowlist(vreq.Actions[i]) \/ FailsPath(vreq.Actions[i]))
               => (~vres.Valid /\ vres.Blocked)
           /\ plain.Reason.fmt \in {FmtAllowlist, FmtPath} => vres = plain

\* C10 witness: a request with override set was denied by the path rule.
C10_Witness ==
    /\ vdone /\ vreq # NilRequest /\ vreq.Override
    /\ Len(vreq.Actions) = 1 /\ vreq.Actions[1].Type = T_READ
    /\ vres.Reason.fmt = FmtPath /\ ~vres.Valid /\ ~vres.Override

\* =========================================================== GhostService
\* DefaultSafetyConfig().BlockedKeywords; SafeMode is true.
SafetyKeywords == <<
    <<"d","e","l","e","t","e">>,
    <<"r","m"," ">>,
    <<"f","o","r","m","a","t"," ">>,
    <<"s","h","u","t","d","o","w","n">>,
    <<"r","e","b","o","o","t">>,
    <<"s","u","d","o">>
>>

SafeMode == TRUE

IsDangerous(intent) ==
    /\ SafeMode
    /\ \E k \in 1..Len(SafetyKeywords) : Contains(ToLower(intent), SafetyKeywords[k])

\* The keyword IsDangerous returns: the first of the list that matches.
DangerousKeyword(intent) ==
    SafetyKeywords[CHOOSE k \in 1..Len(SafetyKeywords) :
        /\ Contains(ToLower(intent), SafetyKeywords[k])
        /\ \A j \in 1..(k - 1) : ~Contains(ToLower(intent), SafetyKeywords[j])]

\* A pb.Action is [Type, Payload]; Payload is a map, nil or the listed fields.
NilMap == [isNil |-> TRUE, fields |-> <<>>]

Map(fields) == [isNil |-> FALSE, fields |-> fields]

\* json.Marshal(action.Payload)
MarshalMap(m) == IF m.isNil THEN NullPayload ELSE ObjectPayload(m.fields)

\* Step 3 of RequestPermission: the LegacyActions and the validation request.
legacyActions(req) ==
    [i \in 1..Len(req.Actions) |->
        Action(req.Actions[i].Type, <<>>, MarshalMap(req.Actions[i].Payload),
               RiskLevelNone)]

validationReq(req) ==
    ValidationRequest(req.TraceId, req.Intent, legacyActions(req), <<>>, FALSE)

\* A denial test that lets a blocked result through.
validationDeniesUnlessBlocked(result) == ~result.Valid /\ ~result.Blocked

\* The test RequestPermission puts on the validation result.
validationDenies(result) == ~result.Valid \/ result.Blocked

ResponseReason(prefix, str, inner) == [prefix |-> prefix, s |-> str, inner |-> inner]

PermissionResponse(approved, reason, trust) ==
    [Approved |-> approved, Reason |-> reason, TrustScore |-> trust]

NoResponse == PermissionResponse(FALSE, ResponseReason("(none yet)", <<>>, NoReason), 0)

safetyResponse(intent) ==
    PermissionResponse(FALSE,
        ResponseReason("Violates Safety Policy: Blocked Keyword '%s'",
                       DangerousKeyword(intent), NoReason), 0)

conscienceResponse(result) ==
    PermissionResponse(FALSE,
        ResponseReason("Conscience Violation: ", <<>>, result.Reason),
        result.TrustScore)

approvedResponse == PermissionResponse(TRUE, ResponseReason("", <<>>, NoReason), 85)

ActionCommand(traceId, i, action) ==
    [CommandId |-> [trace |-> traceId, index |-> i], Action |-> action]

\* The permission requests the Brain sends in this model.
TraceIds == <<"t1", "t2", "t3", "t4", "t5", "t6">>

PbType == [Type |-> T_TYPE, Payload |-> Map(<<StrField(K_text, V_hello)>>)]
PbClick == [Type |-> T_CLICK, Payload |-> NilMap]
PbWrite == [Type |-> T_WRITE, Payload |-> Map(<<StrField(K_path, V_a)>>)]

PermissionRequests == {
    [Intent |-> I_open, Actions |-> <<PbType, PbClick>>],
    [Intent |-> I_delete, Actions |-> <<PbType>>],
    [Intent |-> I_open, Actions |-> <<PbWrite>>]
}

\* ------------------------------------------------------- RequestPermission
\* A call's record: req, pc (where it stands), currentWindow, result (the
\* validation result), next (the enqueue loop's index i), response.
Call(req, pc, window, result, next, response) ==
    [req |-> req, pc |-> pc, currentWindow |-> window, result |-> result,
     next |-> next, response |-> response]

\* Steps 1 and 2: read the focus, then the intent safety check.
RequestPermission_Begin(r) ==
    /\ Len(calls) < MaxCalls
    /\ LET req == [TraceId |-> TraceIds[Len(calls) + 1], Intent |-> r.Intent,
                   Actions |-> r.Actions]
       IN calls' = Append(calls,
              IF IsDangerous(req.Intent)
              THEN Call(req, "done", focusState, NilResult, 0, safetyResponse(req.Intent))
              ELSE Call(req, "setfocus", focusState, NilResult, 0, NoResponse))
    /\ UNCHANGED <<validatorVars, callerVars, repoVars>>
    /\ UNCHANGED <<gatewayVars, focusState, actionChan, recorders, sent, streams>>

\* s.Validator.SetFocusedWindow(currentWindow)
RequestPermission_SetFocus(k) ==
    /\ calls[k].pc = "setfocus"
    /\ SetFocusedWindow(calls[k].currentWindow)
    /\ calls' = [calls EXCEPT ![k].pc = "validate"]
    /\ UNCHANGED <<callerVars, repoVars>>
    /\ UNCHANGED <<gatewayVars, focusState, actionChan, recorders, sent, streams>>

Recorder(intent, window, plan) ==
    [intent |-> intent, window |-> window, plan |-> plan, pc |-> "select",
     found |-> FALSE, id |-> 0, count |-> 0]

\* ValidateAction, the denial test, and on approval the RecordSuccess goroutine.
RequestPermission_Validate(k) ==
    /\ calls[k].pc = "validate"
    /\ ValidateAction(validationReq(calls[k].req))
    /\ LET result == validateResult(validationReq(calls[k].req), focusedWindow, trustScores)
       IN IF validationDenies(result)
          THEN /\ calls' = [calls EXCEPT ![k].pc = "done", ![k].result = result,
                                         ![k].response = conscienceResponse(result)]
               /\ UNCHANGED recorders
          ELSE /\ calls' = [calls EXCEPT
                      ![k].pc = IF Len(calls[k].req.Actions) = 0 THEN "done" ELSE "enqueue",
                      ![k].result = result,
                      ![k].response = IF Len(calls[k].req.Actions) = 0
                                      THEN approvedResponse ELSE NoResponse]
               /\ recorders' = Append(recorders,
                      Recorder(calls[k].req.Intent, calls[k].currentWindow, <<>>))
    /\ UNCHANGED <<callerVars, repoVars>>
    /\ UNCHANGED <<gatewayVars, focusState, actionChan, sent, streams>>

\* A send that evicts the oldest command when the buffer is full.
RequestPermission_EnqueueEvict(k) ==
    /\ calls[k].pc = "enqueue"
    /\ LET i == calls[k].next
           cmd == ActionCommand(calls[k].req.TraceId, i, calls[k].req.Actions[i + 1])
           last == i + 1 = Len(calls[k].req.Actions)
       IN /\ actionChan' = IF Len(actionChan) < ActionChanCap
                           THEN Append(actionChan, cmd)
                           ELSE Append(Tail(actionChan), cmd)
          /\ calls' = [calls EXCEPT
                 ![k].next = i + 1,
                 ![k].pc = IF last THEN "done" ELSE "enqueue",
                 ![k].response = IF last THEN approvedResponse ELSE NoResponse]
    /\ UNCHANGED <<validatorVars, callerVars, repoVars>>
    /\ UNCHANGED <<gatewayVars, focusState, recorders, sent, streams>>

\* One turn of the enqueue loop: a non-blocking send, dropped when the buffer
\* is full; after the last action the call returns Approved.
RequestPermission_Enqueue(k) ==
    /\ calls[k].pc = "enqueue"
    /\ LET i == calls[k].next
           cmd == ActionCommand(calls[k].req.TraceId, i, calls[k].req.Actions[i + 1])
           last == i + 1 = Len(calls[k].req.Actions)
       IN /\ actionChan' = IF Len(actionChan) < ActionChanCap
                           THEN Append(actionChan, cmd)
                           ELSE actionChan
          /\ calls' = [calls EXCEPT
                 ![k].next = i + 1,
                 ![k].pc = IF last THEN "done" ELSE "enqueue",
                 ![k].response = IF last THEN approvedResponse ELSE NoResponse]
    /\ UNCHANGED <<validatorVars, callerVars, repoVars>>
    /\ UNCHANGED <<gatewayVars, focusState, recorders, sent, streams>>

\* ----------------------------------- IntentHistoryRepository.RecordSuccess
MatchingRows(intent, window) ==
    {id \in 1..Len(intentHistory) :
        intentHistory[id].intent = intent /\ intentHistory[id].window = window}

\* The SELECT ... LIMIT 1.
RecordSuccess_Select(j) ==
    /\ recorders[j].pc = "select"
    /\ LET rows == MatchingRows(recorders[j].intent, recorders[j].window)
       IN IF rows = {}
          THEN recorders' = [recorders EXCEPT ![j].pc = "write", ![j].found = FALSE]
          ELSE LET id == CHOOSE x \in rows : \A y \in rows : x <= y
               IN recorders' = [recorders EXCEPT ![j].pc = "write", ![j].found = TRUE,
                                    ![j].id = id,
                                    ![j].count = intentHistory[id].success_count]
    /\ UNCHANGED <<validatorVars, callerVars, repoVars>>
    /\ UNCHANGED <<gatewayVars, focusState, actionChan, calls, sent, streams>>

\* What GetTrustScore(intent, focusedWindow) returns on the table rows: the
\* success_count of the first matching row, or 0 when there is none.
GetTrustScore(rows, intent, window) ==
    LET ids == {id \in 1..Len(rows) :
                   rows[id].intent = intent /\ rows[id].window = window}
    IN IF ids = {} THEN 0
       ELSE rows[CHOOSE x \in ids : \A y \in ids : x <= y].success_count

\* time.Now() as a logical clock: later than every executed_at stored so far.
Now ==
    IF intentHistory = <<>> THEN 1
    ELSE 1 + (CHOOSE t \in {intentHistory[id].executed_at : id \in 1..Len(intentHistory)} :
                 \A id \in 1..Len(intentHistory) : intentHistory[id].executed_at <= t)

\* The INSERT (no row was found) or the UPDATE (with the count read before).
RecordSuccess_Write(j) ==
    /\ recorders[j].pc = "write"
    /\ intentHistory' =
          IF ~recorders[j].found
          THEN Append(intentHistory,
                   [intent |-> recorders[j].intent, window |-> recorders[j].window,
                    executed_at |-> Now, success_count |-> 1,
                    cached_plan |-> recorders[j].plan])
          ELSE [intentHistory EXCEPT
                   ![recorders[j].id].success_count = recorders[j].count + 1,
                   ![recorders[j].id].executed_at = Now,
                   ![recorders[j].id].cached_plan = recorders[j].plan]
    /\ recorders' = [recorders EXCEPT ![j].pc = "done"]
    /\ UNCHANGED <<validatorVars, callerVars>>
    /\ UNCHANGED <<appState, dbState, setters, proposals, userModes, httpCalls>>
    /\ UNCHANGED <<gatewayVars, focusState, actionChan, calls, sent, streams>>

\* ------------------------------------------- ReportFocus, StreamActions
ReportFocus(window) ==
    /\ focusState' = window
    /\ UNCHANGED <<validatorVars, callerVars, repoVars>>
    /\ UNCHANGED <<gatewayVars, actionChan, calls, recorders, sent, streams>>

\* A StreamActions handler: pc is "recv" while it waits on the channel and
\* "send" while it is inside stream.Send(cmd).
Stream(pc, cmd) == [pc |-> pc, cmd |-> cmd]

NoCommand == [CommandId |-> [trace |-> "", index |-> 0], Action |-> NilMap]

\* The sequence seq without its j-th element.
RemoveAt(seq, j) == [i \in 1..(Len(seq) - 1) |-> IF i < j THEN seq[i] ELSE seq[i + 1]]

\* The commands a handler has received and not yet sent.
Taken == {streams[h].cmd : h \in {i \in 1..Len(streams) : streams[i].pc = "send"}}

\* A client calls StreamActions: one more handler ranges over the channel.
StreamActions_Connect ==
    /\ Len(streams) < MaxStreams
    /\ streams' = Append(streams, Stream("recv", NoCommand))
    /\ UNCHANGED <<validatorVars, callerVars, repoVars>>
    /\ UNCHANGED <<gatewayVars, focusState, actionChan, calls, recorders, sent>>

\* for cmd := range s.actionChan: handler h receives the head of the channel.
StreamActions_Receive(h) ==
    /\ streams[h].pc = "recv" /\ actionChan # <<>>
    /\ streams' = [streams EXCEPT ![h] = Stream("send", Head(actionChan))]
    /\ actionChan' = Tail(actionChan)
    /\ UNCHANGED <<validatorVars, callerVars, repoVars>>
    /\ UNCHANGED <<gatewayVars, focusState, calls, recorders, sent>>

\* stream.Send(cmd) returns nil: the client has the command, h loops.
StreamActions_Send(h) ==
    /\ streams[h].pc = "send"
    /\ sent' = Append(sent, streams[h].cmd)
    /\ streams' = [streams EXCEPT ![h] = Stream("recv", NoCommand)]
    /\ UNCHANGED <<validatorVars, callerVars, repoVars>>
    /\ UNCHANGED <<gatewayVars, focusState, actionChan, calls, recorders>>

\* stream.Send(cmd) returns an error: handler h returns it, the others go on.
StreamActions_SendFails(h) ==
    /\ streams[h].pc = "send"
    /\ streams' = RemoveAt(streams, h)
    /\ UNCHANGED <<validatorVars, callerVars, repoVars>>
    /\ UNCHANGED <<gatewayVars, focusState, actionChan, calls, recorders, sent>>

\* ------------------------------------------ StateRepository.SetState
AppStates == {"ACTIVE", "SHADOW", "PAUSED"}

IsValid(state) == state \in AppStates

\* SetState takes two steps, and calls can overlap.  The first step is the
\* IsValid test and the UPDATE of app_state; an invalid state returns an error.
SetState_Update(state) ==
    /\ Len(setters) < MaxCalls
    /\ IF IsValid(state)
       THEN /\ dbState' = state
            /\ setters' = Append(setters, [state |-> state, pc |-> "cache"])
       ELSE /\ UNCHANGED dbState
            /\ setters' = Append(setters, [state |-> state, pc |-> "error"])
    /\ UNCHANGED <<validatorVars, callerVars, serviceVars>>
    /\ UNCHANGED <<gatewayVars, appState, intentHistory, proposals, userModes, httpCalls>>

\* The second step: r.cache = state under the lock, and the call returns.
SetState_Cache(j) ==
    /\ setters[j].pc = "cache"
    /\ appState' = setters[j].state
    /\ setters' = [setters EXCEPT ![j].pc = "done"]
    /\ UNCHANGED <<validatorVars, callerVars, serviceVars>>
    /\ UNCHANGED <<gatewayVars, dbState, intentHistory, proposals, userModes, httpCalls>>

\* GetState: a caller reads the cached mode.
GetState ==
    /\ vreq' = [op |-> "GetState"]
    /\ vres' = appState
    /\ UNCHANGED <<gatewayVars, vdone, validatorVars, serviceVars, repoVars>>

NextM ==
    \/ \E st \in AppStates \cup {"OFF"} : SetState_Update(st)
    \/ \E j \in 1..Len(setters) : SetState_Cache(j)
    \/ GetState

\* ------------------------------------------------------------ the service
Init ==
    /\ InitValidator /\ InitService /\ InitRepos /\ InitGateway
    /\ vreq = NilRequest
    /\ vdone = FALSE
    /\ vres = NilResult

Next ==
    \/ \E r \in PermissionRequests : RequestPermission_Begin(r)
    \/ \E k \in 1..Len(calls) : RequestPermission_SetFocus(k)
    \/ \E k \in 1..Len(calls) : RequestPermission_Validate(k)
    \/ \E k \in 1..Len(calls) : RequestPermission_Enqueue(k)
    \/ \E j \in 1..Len(recorders) : RecordSuccess_Select(j)
    \/ \E j \in 1..Len(recorders) : RecordSuccess_Write(j)
    \/ \E w \in {W_Notepad} : ReportFocus(w)
    \/ StreamActions_Connect
    \/ \E h \in 1..Len(streams) : StreamActions_Receive(h)
    \/ \E h \in 1..Len(streams) : StreamActions_Send(h)
    \/ \E h \in 1..Len(streams) : StreamActions_SendFails(h)

Spec == Init /\ [][Next]_vars

\* The state repository under overlapping SetState calls.
SpecM == Init /\ [][NextM]_vars

\* The service while the system mode is being set.
NextE ==
    \/ RequestPermission_Begin([Intent |-> I_open, Actions |-> <<PbClick>>])
    \/ \E k \in 1..Len(calls) : RequestPermission_SetFocus(k)
    \/ \E k \in 1..Len(calls) : RequestPermission_Validate(k)
    \/ \E k \in 1..Len(calls) : RequestPermission_Enqueue(k)
    \/ \E j \in 1..Len(recorders) : RecordSuccess_Select(j)
    \/ \E j \in 1..Len(recorders) : RecordSuccess_Write(j)
    \/ \E st \in AppStates \cup {"OFF"} : SetState_Update(st)
    \/ \E j \in 1..Len(setters) : SetState_Cache(j)

SpecE == Init /\ [][NextE]_vars

\* ================================= the service with its action buffer full
\* The service after a first RequestPermission for n clicks has returned
\* Approved on a fresh service and its RecordSuccess goroutine has finished, with no Sentinel connected.
AfterClicks(n) ==
    LET Clicks(m) == [TraceId |-> TraceIds[1], Intent |-> I_open,
                      Actions |-> [i \in 1..m |-> PbClick]]
        req == Clicks(n)
        \* every click passes every rule with the same risk, so the result of
        \* n clicks is the result of one
        result == validateResult(validationReq(Clicks(1)), W_Unknown, <<>>)
    IN /\ focusedWindow = W_Unknown
       /\ pendingRequests = pendingAfter(<<>>, validationReq(req), result)
       /\ trustScores = <<>>
       /\ auditLog = auditAfter(<<>>, validationReq(req), result)
       /\ focusState = W_Unknown
       /\ actionChan = [i \in 1..(IF n < ActionChanCap THEN n ELSE ActionChanCap) |->
                           ActionCommand(req.TraceId, i - 1, PbClick)]
       /\ calls = <<Call(req, "done", W_Unknown, result, n, approvedResponse)>>
       /\ recorders = <<[Recorder(I_open, W_Unknown, <<>>) EXCEPT !.pc = "done"]>>
       /\ sent = <<>>
       /\ streams = <<>>
       /\ appState = "SHADOW" /\ dbState = "SHADOW" /\ setters = <<>> /\ httpCalls = <<>>
       /\ intentHistory = <<[intent |-> I_open, window |-> W_Unknown, executed_at |-> 1,
                             success_count |-> 1, cached_plan |-> <<>>]>>
       /\ proposals = <<>>
       /\ userModes = [d \in {"*"} |-> "AUTO"]
       /\ vreq = NilRequest
       /\ vdone = FALSE
       /\ vres = NilResult
       /\ InitGateway

\* The Sentinel takes commands only while the buffer is within MaxDrain of full.
InitB == \E n \in {ActionChanCap - 1, ActionChanCap} : AfterClicks(n)

NextB ==
    \/ RequestPermission_Begin([Intent |-> I_open, Actions |-> <<PbType, PbClick>>])
    \/ \E k \in 1..Len(calls) : RequestPermission_SetFocus(k)
    \/ \E k \in 1..Len(calls) : RequestPermission_Validate(k)
    \/ \E k \in 1..Len(calls) : RequestPermission_Enqueue(k)
    \/ \E j \in 1..Len(recorders) : RecordSuccess_Select(j)
    \/ \E j \in 1..Len(recorders) : RecordSuccess_Write(j)
    \/ StreamActions_Connect
    \/ /\ Len(actionChan) > ActionChanCap - MaxDrain
       /\ \E h \in 1..Len(streams) : StreamActions_Receive(h)
    \/ \E h \in 1..Len(streams) : StreamActions_Send(h)
    \/ \E h \in 1..Len(streams) : StreamActions_SendFails(h)

SpecB == InitB /\ [][NextB]_vars

\* ======================= the service after earlier identical submissions
\* The n-th of the earlier submissions: "open notes" with one click.
PriorRequest(i) ==
    [TraceId |-> TraceIds[Len(TraceIds) - i + 1], Intent |-> I_open,
     Actions |-> <<PbClick>>]

\* The service after n RequestPermission calls for PriorRequest(1..n), made one
\* after the other under the focus "Notepad": each has returned Approved and
\* its RecordSuccess goroutine has finished; no Sentinel is connected.
AfterSubmissions(n) ==
    LET result == validateResult(validationReq(PriorRequest(1)), W_Notepad, <<>>)
    IN /\ focusedWindow = W_Notepad
       /\ pendingRequests = [id \in {PriorRequest(i).TraceId : i \in 1..n} |->
              PendingRequest(validationReq(
                  PriorRequest(CHOOSE i \in 1..n : PriorRequest(i).TraceId = id)))]
       /\ trustScores = <<>>
       /\ auditLog = [i \in 1..n |-> AuditEntry(validationReq(PriorRequest(i)), result)]
       /\ focusState = W_Notepad
       /\ actionChan = [i \in 1..n |-> ActionCommand(PriorRequest(i).TraceId, 0, PbClick)]
       /\ calls = <<>>
       /\ recorders = <<>>
       /\ sent = <<>>
       /\ streams = <<>>
       /\ appState = "SHADOW" /\ dbState = "SHADOW" /\ setters = <<>> /\ httpCalls = <<>>
       /\ intentHistory = <<[intent |-> I_open, window |-> W_Notepad, executed_at |-> 1,
                             success_count |-> n, cached_plan |-> <<>>]>>
       /\ proposals = <<>>
       /\ userModes = [d \in {"*"} |-> "AUTO"]
       /\ vreq = NilRequest
       /\ vdone = FALSE
       /\ vres = NilResult
       /\ InitGateway

InitS == AfterSubmissions(PriorSubmissions)

NextS ==
    \/ RequestPermission_Begin([Intent |-> I_open, Actions |-> <<PbClick>>])
    \/ \E k \in 1..Len(calls) : RequestPermission_SetFocus(k)
    \/ \E k \in 1..Len(calls) : RequestPermission_Validate(k)
    \/ \E k \in 1..Len(calls) : RequestPermission_Enqueue(k)
    \/ \E j \in 1..Len(recorders) : RecordSuccess_Select(j)
    \/ \E j \in 1..Len(recorders) : RecordSuccess_Write(j)
    \/ StreamActions_Connect
    \/ \E h \in 1..Len(streams) : StreamActions_Receive(h)
    \/ \E h \in 1..Len(streams) : StreamActions_Send(h)
    \/ \E h \in 1..Len(streams) : StreamActions_SendFails(h)

SpecS == InitS /\ [][NextS]_vars

\* ============================================ SafetyChecker, called directly
T_EXEC == <<"E","X","E","C">>
T_SHELL == <<"S","H","E","L","L">>
T_exec == <<"e","x","e","c">>
V_up == <<".",".","/","a">>

\* A SafetyConfig is [SafeMode, BlockedKeywords, AllowedActions]; a nil
\* AllowedActions map allows nothing, so it is the empty set.
DefaultSafetyConfig ==
    [SafeMode |-> TRUE, BlockedKeywords |-> SafetyKeywords,
     AllowedActions |-> {T_KEY, T_TYPE, T_CLICK, T_WAIT, T_SPEAK, T_MEMORIZE,
                         T_SCAN, T_LIST, T_READ, T_SEARCH, T_WRITE, T_EDIT}]

\* action.Payload[key] on a map[string]string: "" when the key is missing.
MapGet(m, key) ==
    IF \E i \in 1..Len(m.fields) : m.fields[i].key = key
    THEN m.fields[CHOOSE i \in 1..Len(m.fields) : m.fields[i].key = key].val
    ELSE <<>>

isSafePath(path) ==
    IF path = <<>> THEN TRUE
    ELSE IF \/ HasPrefix(path, <<"/">>) \/ HasPrefix(path, <<"\\">>)
            \/ (Len(path) > 1 /\ path[2] = ":")
    THEN FALSE
    ELSE ~Contains(path, <<".", ".">>)

\* What the checker returns: ok, and the reason (or keyword) with its argument.
Verdict(ok, fmt, str) == [ok |-> ok, fmt |-> fmt, s |-> str]

\* A ValidateAction that applies the policy whatever SafeMode says.
SafetyChecker_ValidateActionAlways(config, action) ==
    LET actionType == ToUpper(action.Type)
        dir == IF MapGet(action.Payload, K_directory) = <<>>
               THEN MapGet(action.Payload, K_path)
               ELSE MapGet(action.Payload, K_directory)
    IN IF actionType \notin config.AllowedActions
       THEN Verdict(FALSE, "Action type '%s' is not in the allowlist", actionType)
       ELSE IF /\ actionType \in {T_WRITE, T_READ, T_EDIT}
               /\ ~isSafePath(MapGet(action.Payload, K_path))
       THEN Verdict(FALSE, "Unsafe path in action payload: %s",
                    MapGet(action.Payload, K_path))
       ELSE IF actionType \in {T_SEARCH, T_LIST} /\ ~isSafePath(dir)
       THEN Verdict(FALSE, "Unsafe directory in action payload: %s", dir)
       ELSE Verdict(TRUE, "", <<>>)

\* SafetyChecker.ValidateAction
SafetyChecker_ValidateAction(config, action) ==
    LET actionType == ToUpper(action.Type)
        dir == IF MapGet(action.Payload, K_directory) = <<>>
               THEN MapGet(action.Payload, K_path)
               ELSE MapGet(action.Payload, K_directory)
    IN IF ~config.SafeMode THEN Verdict(TRUE, "", <<>>)
       ELSE IF actionType \notin config.AllowedActions
       THEN Verdict(FALSE, "Action type '%s' is not in the allowlist", actionType)
       ELSE IF /\ actionType \in {T_WRITE, T_READ, T_EDIT}
               /\ ~isSafePath(MapGet(action.Payload, K_path))
       THEN Verdict(FALSE, "Unsafe path in action payload: %s",
                    MapGet(action.Payload, K_path))
       ELSE IF actionType \in {T_SEARCH, T_LIST} /\ ~isSafePath(dir)
       THEN Verdict(FALSE, "Unsafe directory in action payload: %s", dir)
       ELSE Verdict(TRUE, "", <<>>)

\* SafetyChecker.ValidateActions: the first action that fails decides.
SafetyChecker_ValidateActions(config, actions) ==
    LET failing == {i \in 1..Len(actions) :
                       ~SafetyChecker_ValidateAction(config, actions[i]).ok}
    IN IF ~config.SafeMode \/ failing = {} THEN Verdict(TRUE, "", <<>>)
       ELSE SafetyChecker_ValidateAction(config,
                actions[CHOOSE i \in failing : \A j \in failing : i <= j])

\* SafetyChecker.IsDangerous: the first blocked keyword the intent contains.
SafetyChecker_IsDangerous(config, intent) ==
    LET hits == {k \in 1..Len(config.BlockedKeywords) :
                    Contains(ToLower(intent), config.BlockedKeywords[k])}
    IN IF ~config.SafeMode \/ hits = {} THEN Verdict(FALSE, "", <<>>)
       ELSE Verdict(TRUE, "",
                config.BlockedKeywords[CHOOSE k \in hits : \A j \in hits : k <= j])

\* The configurations the service and its tests build.
SafetyConfigs == {
    DefaultSafetyConfig,
    [SafeMode |-> FALSE, BlockedKeywords |-> <<>>, AllowedActions |-> {}],
    [SafeMode |-> FALSE, BlockedKeywords |-> <<V_delete>>, AllowedActions |-> {}],
    [SafeMode |-> TRUE, BlockedKeywords |-> <<V_delete>>, AllowedActions |-> {}]
}

PbActions == {
    PbType, PbClick, PbWrite,
    [Type |-> T_EXEC, Payload |-> NilMap],
    [Type |-> T_SHELL, Payload |-> NilMap],
    [Type |-> T_exec, Payload |-> NilMap],
    [Type |-> T_EXECUTE, Payload |-> NilMap],
    [Type |-> T_WRITE, Payload |-> Map(<<StrField(K_path, V_abs)>>)],
    [Type |-> T_SEARCH, Payload |-> Map(<<StrField(K_path, V_up)>>)]
}

CheckerInputs ==
    [config : SafetyConfigs, intent : {I_open, I_delete},
     actions : UNION {[1..n -> PbActions] : n \in 1..MaxActions}]

InitC ==
    /\ InitValidator /\ InitService /\ InitRepos /\ InitGateway
    /\ vreq \in CheckerInputs
    /\ vdone = FALSE
    /\ vres = Verdict(FALSE, "(none yet)", <<>>)

\* A caller applies one of the three calls to its input and keeps the verdict.
C_IsDangerous ==
    /\ ~vdone
    /\ vres' = [op |-> "IsDangerous"] @@ SafetyChecker_IsDangerous(vreq.config, vreq.intent)
    /\ vdone' = TRUE
    /\ UNCHANGED <<gatewayVars, vreq, validatorVars, serviceVars, repoVars>>

C_ValidateAction ==
    /\ ~vdone
    /\ vres' = [op |-> "ValidateAction"]
                   @@ SafetyChecker_ValidateAction(vreq.config, vreq.actions[1])
    /\ vdone' = TRUE
    /\ UNCHANGED <<gatewayVars, vreq, validatorVars, serviceVars, repoVars>>

C_ValidateActions ==
    /\ ~vdone
    /\ vres' = [op |-> "ValidateActions"]
                   @@ SafetyChecker_ValidateActions(vreq.config, vreq.actions)
    /\ vdone' = TRUE
    /\ UNCHANGED <<gatewayVars, vreq, validatorVars, serviceVars, repoVars>>

NextC == C_IsDangerous \/ C_ValidateAction \/ C_ValidateActions

SpecC == InitC /\ [][NextC]_vars

\* ============================ IntentHistoryRepository, called directly
\* The value of a cached_plan column that is NULL (no string is equal to it).
SqlNull == <<"<NULL>">>

NoReflex == [plan |-> <<>>, count |-> 0]

\* The WHERE clause of GetReflex with the bound ">= 5".
ReflexRowsFrom5(rows, intent) ==
    {id \in 1..Len(rows) :
        /\ rows[id].intent = intent
        /\ rows[id].success_count >= 5
        /\ rows[id].cached_plan # SqlNull /\ rows[id].cached_plan # <<>>}

\* The rows GetReflex's WHERE clause selects.
ReflexRows(rows, intent) ==
    {id \in 1..Len(rows) :
        /\ rows[id].intent = intent
        /\ rows[id].success_count > 5
        /\ rows[id].cached_plan # SqlNull /\ rows[id].cached_plan # <<>>}

\* What GetReflex(intent) returns on the table rows: ORDER BY executed_at DESC
\* LIMIT 1, or ("", 0) when no row is selected.
getReflex(rows, intent) ==
    IF ReflexRows(rows, intent) = {} THEN NoReflex
    ELSE LET id == CHOOSE x \in ReflexRows(rows, intent) :
                       \A y \in ReflexRows(rows, intent) :
                           rows[y].executed_at <= rows[x].executed_at
         IN [plan |-> rows[id].cached_plan, count |-> rows[id].success_count]

\* A caller's GetReflex(intent): a read, whose result the caller keeps.
GetReflex(intent) ==
    /\ vreq' = [op |-> "GetReflex", intent |-> intent]
    /\ vres' = getReflex(intentHistory, intent)
    /\ UNCHANGED <<gatewayVars, vdone, validatorVars, serviceVars, repoVars>>

\* UPDATE intent_history SET cached_plan = NULL WHERE intent = ?
InvalidateReflex(intent) ==
    /\ intentHistory' = [id \in 1..Len(intentHistory) |->
                            IF intentHistory[id].intent = intent
                            THEN [intentHistory[id] EXCEPT !.cached_plan = SqlNull]
                            ELSE intentHistory[id]]
    /\ UNCHANGED <<validatorVars, callerVars, serviceVars>>
    /\ UNCHANGED <<gatewayVars, appState, dbState, setters, proposals, userModes, httpCalls>>

\* A caller starts RecordSuccess(intent, focusedWindow, cachedPlan).
RecordSuccess_Call(intent, window, plan) ==
    /\ Len(recorders) < MaxCalls
    /\ recorders' = Append(recorders, Recorder(intent, window, plan))
    /\ UNCHANGED <<validatorVars, callerVars, repoVars>>
    /\ UNCHANGED <<gatewayVars, focusState, actionChan, calls, sent, streams>>

P_plan == <<"{", "}">>

\* Tables earlier RecordSuccess calls can have left: up to two rows for one
\* intent, with five or six successes, with or without a cached plan.
HistoryTables ==
    LET Row(w, n, plan, at) ==
            [intent |-> I_open, window |-> w, executed_at |-> at,
             success_count |-> n, cached_plan |-> plan]
        Rows(at) == {Row(w, n, plan, at) :
                        w \in {W_Notepad, W_Chrome}, n \in {5, 6}, plan \in {<<>>, P_plan}}
    IN {<<>>} \cup {<<r>> : r \in Rows(1)}
              \cup {<<r1, r2>> : r1 \in Rows(1), r2 \in Rows(2)}

InitR ==
    /\ InitValidator /\ InitService /\ InitGateway
    /\ appState = "SHADOW" /\ dbState = "SHADOW" /\ setters = <<>> /\ httpCalls = <<>>
    /\ proposals = <<>>
    /\ userModes = [d \in {"*"} |-> "AUTO"]
    /\ intentHistory \in HistoryTables
    /\ vreq = NilRequest
    /\ vdone = FALSE
    /\ vres = NoReflex

NextR ==
    \/ \E intent \in {I_open, I_delete}, plan \in {<<>>, P_plan} :
          RecordSuccess_Call(intent, W_Notepad, plan)
    \/ \E j \in 1..Len(recorders) : RecordSuccess_Select(j)
    \/ \E j \in 1..Len(recorders) : RecordSuccess_Write(j)
    \/ \E intent \in {I_open, I_delete} : GetReflex(intent)
    \/ \E intent \in {I_open, I_delete} : InvalidateReflex(intent)

SpecR == InitR /\ [][NextR]_vars

\* =================================== exec.request frames (LegacyBridge)
K_target == <<"t","a","r","g","e","t">>

\* The byte order json.Marshal sorts map keys by, for lower-case letters.
CharRank(c) == IF \E i \in 1..26 : LowerChars[i] = c
               THEN CHOOSE i \in 1..26 : LowerChars[i] = c
               ELSE 0

RECURSIVE KeyLess(_, _)
KeyLess(a, b) ==
    IF b = <<>> THEN FALSE
    ELSE IF a = <<>> THEN TRUE
    ELSE IF CharRank(Head(a)) # CharRank(Head(b)) THEN CharRank(Head(a)) < CharRank(Head(b))
    ELSE KeyLess(Tail(a), Tail(b))

\* m[key] = val on a map kept as its fields in key order.
RECURSIVE SetKey(_, _, _)
SetKey(fields, key, val) ==
    IF fields = <<>> THEN <<StrField(key, val)>>
    ELSE IF Head(fields).key = key THEN <<StrField(key, val)>> \o Tail(fields)
    ELSE IF KeyLess(key, Head(fields).key) THEN <<StrField(key, val)>> \o fields
    ELSE <<Head(fields)>> \o SetKey(Tail(fields), key, val)

\* strPayload[k] = fmt.Sprintf("%v", v) for every entry of payloadMap.
RECURSIVE StringifyFields(_, _)
StringifyFields(fields, out) ==
    IF fields = <<>> THEN out
    ELSE StringifyFields(Tail(fields), SetKey(out, Head(fields).key, Head(fields).val))

\* The pb.Action LegacyBridge.RequestApproval makes of one LegacyAction.
bridgeAction(la) ==
    LET payloadMap == IF Len(PayloadBytes(la.Payload)) > 0 /\ la.Payload.raw = "object"
                      THEN la.Payload.fields ELSE <<>>
        strPayload == StringifyFields(payloadMap, <<>>)
        withTarget == IF la.Target # <<>> THEN SetKey(strPayload, K_target, la.Target)
                      ELSE strPayload
    IN [Type |-> la.Type, Payload |-> Map(withTarget)]

\* An exec.request frame: ExecApprovalRequestParams with its actions decoded
\* (ok) or not decodable as a list of LegacyActions.
ExecApprovalRequestParams(intent, ok, actions, expected) ==
    [ok |-> TRUE, Intent |-> intent, ActionsOk |-> ok, Actions |-> actions,
     ExpectedWindow |-> expected]

ExecRequests == {
    ExecApprovalRequestParams(I_open, TRUE,
        <<Action(T_TYPE, <<>>, ObjectPayload(<<StrField(K_text, V_hello)>>), RiskLevelNone)>>,
        W_Chrome),
    ExecApprovalRequestParams(I_open, TRUE,
        <<Action(T_CLICK, V_a, NoPayload, RiskLevelNone),
          Action(T_WRITE, <<>>, ObjectPayload(<<StrField(K_path, V_a)>>), RiskLevelNone)>>,
        <<>>),
    ExecApprovalRequestParams(I_open, TRUE,
        <<Action(T_CLICK, <<>>, NoPayload, RiskLevelCritical)>>, <<>>),
    ExecApprovalRequestParams(I_open, TRUE,
        <<Action(T_EDIT, <<>>, ObjectPayload(<<StrField(K_path, V_a)>>), RiskLevelNone)>>,
        <<>>),
    ExecApprovalRequestParams(I_open, FALSE, <<>>, <<>>)
}

\* A RequestPermission call made by the bridge: the call with the frame that
\* RequestApproval holds while it waits for the response.
BridgeCall(frame, call) ==
    [f \in DOMAIN call \cup {"frame"} |-> IF f = "frame" THEN frame ELSE call[f]]

\* The RequestPermission call LegacyBridge.RequestApproval makes for the
\* frame p, after steps 1 and 2 of RequestPermission.
RequestApproval_Call(p) ==
    LET req == [TraceId |-> TraceIds[Len(calls) + 1], Intent |-> p.Intent,
                Actions |-> [i \in 1..Len(p.Actions) |-> bridgeAction(p.Actions[i])]]
    IN BridgeCall(p,
           IF IsDangerous(req.Intent)
           THEN Call(req, "done", focusState, NilResult, 0, safetyResponse(req.Intent))
           ELSE Call(req, "setfocus", focusState, NilResult, 0, NoResponse))

\* LegacyBridge.RequestApproval up to steps 1 and 2 of the RequestPermission
\* it calls; a frame whose actions do not decode is answered with an error.
RequestApproval_Begin(p) ==
    /\ Len(calls) < MaxCalls
    /\ IF ~p.ActionsOk
       THEN UNCHANGED calls
       ELSE calls' = Append(calls, RequestApproval_Call(p))
    /\ UNCHANGED <<validatorVars, callerVars, repoVars>>
    /\ UNCHANGED <<gatewayVars, focusState, actionChan, recorders, sent, streams>>

NextG ==
    \/ \E p \in ExecRequests : RequestApproval_Begin(p)
    \/ \E k \in 1..Len(calls) : RequestPermission_SetFocus(k)
    \/ \E k \in 1..Len(calls) : RequestPermission_Validate(k)
    \/ \E k \in 1..Len(calls) : RequestPermission_Enqueue(k)
    \/ \E j \in 1..Len(recorders) : RecordSuccess_Select(j)
    \/ \E j \in 1..Len(recorders) : RecordSuccess_Write(j)
    \/ \E w \in {W_Notepad} : ReportFocus(w)
    \/ StreamActions_Connect
    \/ \E h \in 1..Len(streams) : StreamActions_Receive(h)
    \/ \E h \in 1..Len(streams) : StreamActions_Send(h)
    \/ \E h \in 1..Len(streams) : StreamActions_SendFails(h)

SpecG == Init /\ [][NextG]_vars

\* ================================================= HTTP permission kernel
\* An action_proposals row, by the columns the handlers read or write; its id
\* is its place in proposals, the order of the INSERTs. created_at is a
\* reading of the clock; approved_at is 0 for NULL, else a reading of the clock.
ActionProposal(intent, risk, domainName, status, created) ==
    [intent |-> intent, risk_score |-> risk, domain |-> domainName, status |-> status,
     created_at |-> created, approved_at |-> 0, user_response |-> <<>>]

NoProposal == ActionProposal(<<>>, 0, "", "", 0)

\* An HTTP handler that has run one database statement and not yet the next:
\* op is the handler, pc the statement it runs next, id the row it works on,
\* action the ActionProposal it holds.
HttpCall(op, pc, id, action) == [op |-> op, pc |-> pc, id |-> id, action |-> action]

\* The handlePropose calls that have not saved their proposal yet.
Proposing == {q \in 1..Len(httpCalls) : httpCalls[q].op = "propose"}

\* domain.NewActionProposal: status PENDING, and CreatedAt is time.Now(), a
\* time later than every CreatedAt taken before.
NewActionProposal(intent, risk, domainName) ==
    LET stamps == {proposals[x].created_at : x \in DOMAIN proposals}
                      \cup {httpCalls[q].action.created_at : q \in Proposing} \cup {0}
    IN ActionProposal(intent, risk, domainName, "PENDING",
                      1 + (CHOOSE t \in stamps : \A u \in stamps : u <= t))

\* ActionRepository.GetUserMode: the domain's row, else the '*' row, else AUTO.
GetUserMode(domainName) ==
    IF domainName \in DOMAIN userModes THEN userModes[domainName]
    ELSE IF "*" \in DOMAIN userModes THEN userModes["*"]
    ELSE "AUTO"

ShouldAutoApprove(risk, userMode) ==
    IF userMode = "MANUAL" THEN FALSE ELSE risk < AutoApproveRisk

\* ActionRepository.UpdateActionStatus: approved_at is set to now by APPROVED
\* (a time later than every approved_at stored) and to NULL by any other
\* status. Only the order of the times is kept: each is stored as its rank
\* among the times in the table.
UpdateActionStatus(id, status) ==
    LET stamps == {proposals[x].approved_at : x \in DOMAIN proposals}
        now == 1 + (CHOOSE t \in stamps : \A u \in stamps : u <= t)
        updated == [proposals EXCEPT ![id].status = status,
                        ![id].approved_at = IF status = "APPROVED" THEN now ELSE 0]
        Rank(t) == Cardinality({updated[x].approved_at : x \in DOMAIN updated} \cap 1..t)
    IN [x \in DOMAIN updated |-> [updated[x] EXCEPT !.approved_at = Rank(@)]]

\* ActionRepository.GetApprovedActions on the table props: the ids of the
\* APPROVED and EXECUTING rows, ORDER BY approved_at ASC (NULL first),
\* created_at ASC.
GetApprovedActions(props) ==
    LET ids == {x \in DOMAIN props : props[x].status \in {"APPROVED", "EXECUTING"}}
        Before(x, y) == \/ props[x].approved_at < props[y].approved_at
                        \/ /\ props[x].approved_at = props[y].approved_at
                           /\ props[x].created_at < props[y].created_at
    IN CHOOSE out \in [1..Cardinality(ids) -> ids] :
           \A i, j \in 1..Cardinality(ids) : i < j => Before(out[i], out[j])

\* POST /api/propose, up to NewActionProposal: a request with no intent or a
\* risk score outside 0..100 is answered 400.
handlePropose_New(intent, risk, domainName) ==
    /\ Len(httpCalls) < MaxCalls
    /\ Len(proposals) + Cardinality(Proposing) < MaxProposals
    /\ IF intent = <<>> \/ risk < 0 \/ risk > 100
       THEN UNCHANGED httpCalls
       ELSE httpCalls' = Append(httpCalls,
                HttpCall("propose", "mode", 0, NewActionProposal(intent, risk, domainName)))
    /\ UNCHANGED <<validatorVars, callerVars, serviceVars>>
    /\ UNCHANGED <<gatewayVars, appState, dbState, setters, intentHistory, proposals, userModes>>

\* handlePropose: GetUserMode, then the status ShouldAutoApprove chooses.
handlePropose_GetUserMode(q) ==
    /\ httpCalls[q].op = "propose" /\ httpCalls[q].pc = "mode"
    /\ LET action == httpCalls[q].action
       IN httpCalls' = [httpCalls EXCEPT
              ![q].pc = "save",
              ![q].action.status =
                  IF ShouldAutoApprove(action.risk_score, GetUserMode(action.domain))
                  THEN "EXECUTING" ELSE "WAITING_FOR_USER"]
    /\ UNCHANGED <<validatorVars, callerVars, serviceVars>>
    /\ UNCHANGED <<gatewayVars, appState, dbState, setters, intentHistory, proposals, userModes>>

\* handlePropose: SaveActionProposal, the INSERT, and the 201 response.
handlePropose_Save(q) ==
    /\ httpCalls[q].op = "propose" /\ httpCalls[q].pc = "save"
    /\ proposals' = Append(proposals, httpCalls[q].action)
    /\ httpCalls' = RemoveAt(httpCalls, q)
    /\ UNCHANGED <<validatorVars, callerVars, serviceVars>>
    /\ UNCHANGED <<gatewayVars, appState, dbState, setters, intentHistory, userModes>>

\* POST /api/approve/{id}; an unknown id changes nothing.
handleApprove(id, approved) ==
    /\ IF id \in DOMAIN proposals
       THEN proposals' = UpdateActionStatus(id, IF approved THEN "APPROVED" ELSE "REJECTED")
       ELSE UNCHANGED proposals
    /\ UNCHANGED <<validatorVars, callerVars, serviceVars>>
    /\ UNCHANGED <<gatewayVars, appState, dbState, setters, intentHistory, userModes, httpCalls>>

\* GhostService.ApproveAction
ApproveAction(id, approved) ==
    /\ IF id \in DOMAIN proposals
       THEN proposals' = UpdateActionStatus(id, IF approved THEN "APPROVED" ELSE "REJECTED")
       ELSE UNCHANGED proposals
    /\ UNCHANGED <<validatorVars, callerVars, serviceVars>>
    /\ UNCHANGED <<gatewayVars, appState, dbState, setters, intentHistory, userModes, httpCalls>>

\* POST /api/reply/{id}, up to UpdateUserResponse: an empty message is
\* answered 400, an id with no row 500; else the UPDATE of user_response.
handleReply_UpdateUserResponse(id, message) ==
    /\ Len(httpCalls) < MaxCalls
    /\ IF message # <<>> /\ id \in DOMAIN proposals
       THEN /\ proposals' = [proposals EXCEPT ![id].user_response = message]
            /\ httpCalls' = Append(httpCalls, HttpCall("reply", "status", id, NoProposal))
       ELSE UNCHANGED <<proposals, httpCalls>>
    /\ UNCHANGED <<validatorVars, callerVars, serviceVars>>
    /\ UNCHANGED <<gatewayVars, appState, dbState, setters, intentHistory, userModes>>

\* handleReply: UpdateActionStatus(PENDING), and the 200 response.
handleReply_UpdateActionStatus(q) ==
    /\ httpCalls[q].op = "reply" /\ httpCalls[q].pc = "status"
    /\ proposals' = UpdateActionStatus(httpCalls[q].id, "PENDING")
    /\ httpCalls' = RemoveAt(httpCalls, q)
    /\ UNCHANGED <<validatorVars, callerVars, serviceVars>>
    /\ UNCHANGED <<gatewayVars, appState, dbState, setters, intentHistory, userModes>>

\* handleReply: UpdateActionStatus returns an error, and the 500 response;
\* the user response stays stored.
handleReply_UpdateFails(q) ==
    /\ httpCalls[q].op = "reply" /\ httpCalls[q].pc = "status"
    /\ httpCalls' = RemoveAt(httpCalls, q)
    /\ UNCHANGED <<validatorVars, callerVars, serviceVars>>
    /\ UNCHANGED <<gatewayVars, appState, dbState, setters, intentHistory, proposals, userModes>>

\* POST /api/actions/{id}/complete | fail | executing
handleActionStatus(id, statusAction) ==
    /\ IF id \in DOMAIN proposals /\ statusAction \in {"complete", "fail", "executing"}
       THEN proposals' = UpdateActionStatus(id,
                CASE statusAction = "complete" -> "COMPLETED"
                  [] statusAction = "fail" -> "FAILED"
                  [] OTHER -> "EXECUTING")
       ELSE UNCHANGED proposals
    /\ UNCHANGED <<validatorVars, callerVars, serviceVars>>
    /\ UNCHANGED <<gatewayVars, appState, dbState, setters, intentHistory, userModes, httpCalls>>

\* ActionRepository.SetUserMode: the upsert.
SetUserMode(domainName, mode) ==
    userModes' = [d \in DOMAIN userModes \cup {domainName} |->
                     IF d = domainName THEN mode ELSE userModes[d]]

\* POST /api/modes
setUserMode(domainName, mode) ==
    /\ IF mode \in {"AUTO", "MANUAL"}
       THEN SetUserMode(IF domainName = "" THEN "*" ELSE domainName, mode)
       ELSE UNCHANGED userModes
    /\ UNCHANGED <<validatorVars, callerVars, serviceVars>>
    /\ UNCHANGED <<gatewayVars, appState, dbState, setters, intentHistory, proposals, httpCalls>>

\* GhostService.SetSystemMode: anything but "AUTO" means MANUAL.
SetSystemMode(domainName, mode) ==
    /\ SetUserMode(domainName, IF mode = "AUTO" THEN "AUTO" ELSE "MANUAL")
    /\ UNCHANGED <<validatorVars, callerVars, serviceVars>>
    /\ UNCHANGED <<gatewayVars, appState, dbState, setters, intentHistory, proposals, httpCalls>>

V_reply == <<"o", "k">>

NextK ==
    \/ \E intent \in {I_open, <<>>}, risk \in {10, 30, 101} :
          handlePropose_New(intent, risk, "*")
    \/ \E q \in 1..Len(httpCalls) : handlePropose_GetUserMode(q)
    \/ \E q \in 1..Len(httpCalls) : handlePropose_Save(q)
    \/ \E id \in 1..MaxProposals, approved \in BOOLEAN : handleApprove(id, approved)
    \/ \E id \in 1..MaxProposals, approved \in BOOLEAN : ApproveAction(id, approved)
    \/ \E id \in 1..MaxProposals, message \in {V_reply, <<>>} :
          handleReply_UpdateUserResponse(id, message)
    \/ \E q \in 1..Len(httpCalls) : handleReply_UpdateActionStatus(q)
    \/ \E q \in 1..Len(httpCalls) : handleReply_UpdateFails(q)
    \/ \E id \in 1..MaxProposals, a \in {"complete", "fail", "executing", "retry"} :
          handleActionStatus(id, a)
    \/ \E mode \in {"AUTO", "MANUAL", "OFF"} : setUserMode("", mode)
    \/ \E mode \in {"AUTO", "manual"} : SetSystemMode("*", mode)
    \/ \E st \in {"PAUSED", "OFF"} : SetState_Update(st)
    \/ \E j \in 1..Len(setters) : SetState_Cache(j)

SpecK == Init /\ [][NextK]_vars

\* The kernel with requests that keep arriving: some handler always runs again.
SpecKFair == Init /\ [][NextK]_vars /\ WF_vars(NextK)

\* ============================================ the gateway (gateway.Server)
Secret == [i \in 1..TokenLen |-> "a"]

WrongToken == [i \in 1..TokenLen |-> "b"]

\* A connection's Client, with frames (how many frames were answered), last
\* (the last frame answered, the code of the reply to it, and the handler that
\* ran) and call (the RequestPermission call its exec.request handler waits
\* for, 0 when there is none).
Client ==
    [open |-> TRUE, Authenticated |-> FALSE, Type |-> "", Capabilities |-> {},
     frames |-> 0, last |-> [frame |-> [kind |-> "none"], code |-> 0, ran |-> ""],
     call |-> 0]

\* registerHandlers: the methods of s.handlers.
Handlers == {"connect", "wake", "talk_mode", "exec.request", "exec.resolve",
             "memory.store", "memory.search", "focus.update", "session.snapshot",
             "session.update", "registry.snapshot"}

getCapabilitiesForType(clientType) ==
    CASE clientType = "brain" ->
            {"exec.request", "memory.store", "memory.search", "session.snapshot",
             "session.update", "registry.snapshot"}
      [] clientType = "sentinel" -> {"focus.update"}
      [] clientType = "ears" -> {"wake", "talk_mode"}
      [] clientType = "external" -> {"wake", "talk_mode", "session.snapshot"}
      [] OTHER -> {}

\* What a handler leaves: the client, the reply's error code (0 for a result),
\* the handler that ran and the action_proposals table.
Outcome(client, code, ran, props) ==
    [client |-> client, code |-> code, ran |-> ran, proposals |-> props]

handleConnect(client, params, token, props) ==
    IF ~params.ok THEN Outcome(client, ErrCodeInvalidParams, "connect", props)
    ELSE IF params.Token # token THEN Outcome(client, ErrCodeAuthFailed, "connect", props)
    ELSE Outcome([client EXCEPT !.Authenticated = TRUE, !.Type = params.ClientType,
                                !.Capabilities = getCapabilitiesForType(params.ClientType)],
                 0, "connect", props)

\* handleExecResolve, LegacyBridge.ResolveApproval, GhostService.ApproveAction.
handleExecResolve(client, params, props) ==
    IF ~params.ok THEN Outcome(client, ErrCodeInvalidParams, "exec.resolve", props)
    ELSE IF params.RequestID \notin DOMAIN props
    THEN Outcome(client, ErrCodeInternalError, "exec.resolve", props)
    ELSE Outcome(client, 0, "exec.resolve",
                 UpdateActionStatus(params.RequestID,
                                    IF params.Approved THEN "APPROVED" ELSE "REJECTED"))

\* handleExecRequest up to its call of LegacyBridge.RequestApproval: code 0
\* stands for the call being made, and the reply follows when it returns.
handleExecRequest(client, params, props) ==
    IF ~params.ok THEN Outcome(client, ErrCodeInvalidParams, "exec.request", props)
    ELSE IF ~params.ActionsOk THEN Outcome(client, ErrCodeInternalError, "exec.request", props)
    ELSE Outcome(client, 0, "exec.request", props)

\* handler(ctx, client, frame.Params) for a registered method other than
\* connect. handleRegistrySnapshot reads no params; handleWake, handleTalkMode,
\* handleFocusUpdate, handleSessionSnapshot, handleSessionUpdate,
\* handleMemoryStore and handleMemorySearch decode theirs and reply with a
\* result (what they broadcast or store is outside this state).
runHandler(client, frame, props) ==
    CASE frame.method = "exec.resolve" -> handleExecResolve(client, frame.params, props)
      [] frame.method = "exec.request" -> handleExecRequest(client, frame.params, props)
      [] frame.method = "registry.snapshot" -> Outcome(client, 0, frame.method, props)
      [] OTHER -> Outcome(client, IF frame.params.ok THEN 0 ELSE ErrCodeInvalidParams,
                          frame.method, props)

\* A dispatch that runs a handler before asking for authentication.
dispatchMethodOpen(client, frame, token, props) ==
    IF frame.method = "connect" THEN handleConnect(client, frame.params, token, props)
    ELSE IF frame.method \notin Handlers
    THEN Outcome(client, ErrCodeMethodNotFound, "", props)
    ELSE runHandler(client, frame, props)

dispatchMethod(client, frame, token, props) ==
    IF frame.method = "connect" THEN handleConnect(client, frame.params, token, props)
    ELSE IF ~client.Authenticated THEN Outcome(client, ErrCodeAuthFailed, "", props)
    ELSE IF frame.method \notin Handlers
    THEN Outcome(client, ErrCodeMethodNotFound, "", props)
    ELSE runHandler(client, frame, props)

\* One turn of handleConnection's loop: a line is parsed, checked and dispatched.
processLine(client, frame, token, props) ==
    IF frame.kind = "malformed" THEN Outcome(client, ErrCodeParseError, "", props)
    ELSE IF frame.jsonrpc # "2.0" THEN Outcome(client, ErrCodeInvalidRequest, "", props)
    ELSE dispatchMethod(client, frame, token, props)

RequestFrame(method, params) ==
    [kind |-> "frame", jsonrpc |-> "2.0", method |-> method, params |-> params]

\* listener.Accept and the start of handleConnection.
Accept ==
    /\ Len(clients) < MaxConns
    /\ clients' = Append(clients, Client)
    /\ UNCHANGED <<validatorVars, callerVars, serviceVars, repoVars, tokenFiles, authToken>>

\* handleConnection reads the line the client c sent and replies to it; for
\* an exec.request that reaches RequestPermission the reply comes later.
handleConnection(c, frame) ==
    /\ clients[c].open /\ clients[c].frames < MaxFrames /\ clients[c].call = 0
    /\ LET out == processLine(clients[c], frame, authToken, proposals)
       IN IF out.ran = "exec.request" /\ out.code = 0
          THEN /\ Len(calls) < MaxCalls
               /\ calls' = Append(calls, RequestApproval_Call(frame.params))
               /\ clients' = [clients EXCEPT ![c].call = Len(calls) + 1]
               /\ UNCHANGED proposals
          ELSE /\ clients' = [clients EXCEPT
                      ![c] = [out.client EXCEPT !.frames = @ + 1,
                                 !.last = [frame |-> frame, code |-> out.code,
                                           ran |-> out.ran]]]
               /\ proposals' = out.proposals
               /\ UNCHANGED calls
    /\ UNCHANGED <<validatorVars, callerVars, tokenFiles, authToken>>
    /\ UNCHANGED <<focusState, actionChan, recorders, sent, streams>>
    /\ UNCHANGED <<appState, dbState, setters, intentHistory, userModes, httpCalls>>

\* RequestApproval has returned to handleExecRequest: the result is sent.
handleExecRequest_Reply(c) ==
    /\ clients[c].call # 0 /\ calls[clients[c].call].pc = "done"
    /\ clients' = [clients EXCEPT
           ![c].call = 0, ![c].frames = @ + 1,
           ![c].last = [frame |-> RequestFrame("exec.request", calls[clients[c].call].frame),
                        code |-> 0, ran |-> "exec.request"]]
    /\ UNCHANGED <<validatorVars, callerVars, serviceVars, repoVars, tokenFiles, authToken>>

\* The client c hangs up: scanner.Scan returns false and the connection closes.
Disconnect(c) ==
    /\ clients[c].open /\ clients[c].call = 0
    /\ clients' = [clients EXCEPT ![c].open = FALSE]
    /\ UNCHANGED <<validatorVars, callerVars, serviceVars, repoVars, tokenFiles, authToken>>

\* The lines clients send in this model.
ConnectParams(token, clientType) == [ok |-> TRUE, Token |-> token, ClientType |-> clientType]

GatewayFrames ==
    {[kind |-> "malformed"],
     [RequestFrame("wake", [ok |-> TRUE]) EXCEPT !.jsonrpc = "1.0"],
     RequestFrame("connect", [ok |-> FALSE]),
     RequestFrame("wake", [ok |-> TRUE]),
     RequestFrame("nope", [ok |-> TRUE]),
     RequestFrame("talk_mode", [ok |-> TRUE]),
     RequestFrame("focus.update", [ok |-> FALSE]),
     RequestFrame("registry.snapshot", [ok |-> TRUE]),
     RequestFrame("exec.request", [ok |-> FALSE]),
     RequestFrame("exec.request", ExecApprovalRequestParams(I_open, FALSE, <<>>, <<>>)),
     RequestFrame("exec.request",
         ExecApprovalRequestParams(I_open, TRUE,
             <<Action(T_CLICK, V_a, NoPayload, RiskLevelNone)>>, <<>>)),
     RequestFrame("exec.resolve", [ok |-> TRUE, RequestID |-> 1, Approved |-> TRUE])}
    \cup {RequestFrame("connect", ConnectParams(t, ct)) :
             t \in {Secret, WrongToken, <<>>}, ct \in {"brain", "sentinel"}}

\* The token files main can find at boot.
InitW ==
    /\ InitValidator /\ InitService /\ InitRepos
    /\ vreq = NilRequest /\ vdone = FALSE /\ vres = NilResult
    /\ tokenFiles \in [{"../ghost.token", "ghost.token"} ->
                          {NoFile, Secret \o <<"\n">>}]
    /\ authToken = loadAuthToken(tokenFiles)
    /\ clients = <<>>

NextW ==
    \/ Accept
    \/ \E c \in 1..Len(clients), frame \in GatewayFrames : handleConnection(c, frame)
    \/ \E c \in 1..Len(clients) : handleExecRequest_Reply(c)
    \/ \E c \in 1..Len(clients) : Disconnect(c)
    \/ \E k \in 1..Len(calls) : RequestPermission_SetFocus(k)
    \/ \E k \in 1..Len(calls) : RequestPermission_Validate(k)
    \/ \E k \in 1..Len(calls) : RequestPermission_Enqueue(k)
    \/ \E j \in 1..Len(recorders) : RecordSuccess_Select(j)
    \/ \E j \in 1..Len(recorders) : RecordSuccess_Write(j)
    \/ handlePropose_New(I_open, 30, "*")
    \/ \E q \in 1..Len(httpCalls) : handlePropose_GetUserMode(q)
    \/ \E q \in 1..Len(httpCalls) : handlePropose_Save(q)

SpecW == InitW /\ [][NextW]_vars

\* ====================================================== the claims, C1 - C7
\* The commands of one call: on the channel, inside a Send, or sent.
CommandsOf(traceId) ==
    {cmd \in {actionChan[i] : i \in 1..Len(actionChan)} \cup Taken
                \cup {sent[i] : i \in 1..Len(sent)} :
        cmd.CommandId.trace = traceId}

\* C1 as stated: a command is put on the action channel only while the system
\* mode is ACTIVE.
C1_EnqueueOnlyWhenActive ==
    [][Len(actionChan') > Len(actionChan) => appState = "ACTIVE"]_vars

\* C2: a call that is denied (by the intent safety check, or by a validation
\* result that is invalid or blocked, or answered Approved=false) has run no
\* turn of the enqueue loop, and no command with its trace id is on the action
\* channel, held by a StreamActions handler or sent on a stream.
C2_DeniedNeverEnqueued ==
    \A k \in 1..Len(calls) :
        LET c == calls[k]
            denied == \/ IsDangerous(c.req.Intent)
                      \/ c.pc \in {"enqueue", "done"} /\ (~c.result.Valid \/ c.result.Blocked)
                      \/ c.pc = "done" /\ ~c.response.Approved
        IN denied => (c.next = 0 /\ CommandsOf(c.req.TraceId) = {})

\* C2 witness: one call was denied by the validator and answered, while the
\* commands of another, approved call are on the channel or the stream.
C2_Witness ==
    \E k, m \in 1..Len(calls) :
        /\ calls[k].pc = "done" /\ ~calls[k].response.Approved
        /\ calls[k].result.Blocked /\ calls[k].result.Reason.fmt = FmtOverride
        /\ calls[m].pc = "done" /\ calls[m].response.Approved
        /\ CommandsOf(calls[m].req.TraceId) # {}

AuditEntriesOf(traceId) == {i \in 1..Len(auditLog) : auditLog[i].RequestID = traceId}

\* C3 as stated: every answered RequestPermission call has exactly one audit
\* entry.
C3_OneAuditEntryPerCall ==
    \A k \in 1..Len(calls) :
        calls[k].pc = "done" => Cardinality(AuditEntriesOf(calls[k].req.TraceId)) = 1

\* The lifecycle the claim allows, as <<from, to>> pairs.
Lifecycle == {
    <<"PENDING", "WAITING_FOR_USER">>, <<"PENDING", "WAITING_FOR_CONTEXT">>,
    <<"WAITING_FOR_USER", "APPROVED">>, <<"WAITING_FOR_USER", "REJECTED">>,
    <<"WAITING_FOR_CONTEXT", "PENDING">>,
    <<"APPROVED", "EXECUTING">>,
    <<"EXECUTING", "COMPLETED">>, <<"EXECUTING", "FAILED">>
}

\* C4 as stated: a stored proposal changes status only along the lifecycle.
C4_LifecycleTransitionsOnly ==
    [][\A id \in DOMAIN proposals :
          \/ proposals'[id].status = proposals[id].status
          \/ <<proposals[id].status, proposals'[id].status>> \in Lifecycle]_vars

\* C5 as stated: the intent history (the trust counts) changes only in a step
\* that reports a proposal COMPLETED.
C5_TrustOnlyOnCompletion ==
    [][intentHistory' # intentHistory =>
          \E id \in DOMAIN proposals' :
              /\ proposals'[id].status = "COMPLETED"
              /\ (id \notin DOMAIN proposals \/ proposals[id].status # "COMPLETED")]_vars

\* C6 as stated: no request whose commands were forwarded to the action channel
\* is also held as a pending request.
C6_ForwardedNotPending ==
    \A k \in 1..Len(calls) :
        calls[k].next > 0 => calls[k].req.TraceId \notin DOMAIN pendingRequests

\* C7 as stated: a proposal submitted while the system mode is PAUSED is denied.
C7_PausedDeniesProposals ==
    [][(appState = "PAUSED" /\ Len(proposals') > Len(proposals))
          => proposals'[Len(proposals')].status = "REJECTED"]_vars

\* ------------------------------------------------------------ override gate
PassesRules(req) == FailingActions(req) = {}

\* The base risk the claims give an action's type.
ClaimedTypeRisk(a) ==
    LET t == ToUpper(a.Type)
    IN IF t \in {T_FILE_DELETE, T_EXECUTE} THEN RiskLevelCritical
       ELSE IF t \in {T_DELETE, T_FILE_WRITE, T_WRITE, T_EDIT} THEN RiskLevelHigh
       ELSE IF t \in {T_SUBMIT, T_HOTKEY, T_OPEN_URL, T_READ} THEN RiskLevelMedium
       ELSE IF t \in {T_SCROLL, T_SCREENSHOT, T_WAIT, T_FOCUS, T_SCAN,
                      T_SPEAK, T_MEMORIZE} THEN RiskLevelNone
       ELSE RiskLevelLow

\* The risk the claims give an action: the supplied one when there is one
\* (Go's zero value means none was supplied), else the base risk of its type.
ClaimedActionRisk(a) ==
    IF a.RiskLevel # RiskLevelNone THEN a.RiskLevel ELSE ClaimedTypeRisk(a)

\* The same, with only a risk above 0 counting as supplied.
AmendedActionRisk(a) ==
    IF a.RiskLevel > RiskLevelNone THEN a.RiskLevel ELSE ClaimedTypeRisk(a)

\* The maximum of AmendedActionRisk over the request's actions, 0 for none.
AmendedRisk(req) ==
    IF req.Actions = <<>> THEN RiskLevelNone
    ELSE CHOOSE r \in {AmendedActionRisk(req.Actions[i]) : i \in 1..Len(req.Actions)} :
            \A i \in 1..Len(req.Actions) : AmendedActionRisk(req.Actions[i]) <= r

ClaimedRisk(req) ==
    IF \E i \in 1..Len(req.Actions) :
           \A j \in 1..Len(req.Actions) :
               ClaimedActionRisk(req.Actions[j]) <= ClaimedActionRisk(req.Actions[i])
    THEN ClaimedActionRisk(req.Actions[
             CHOOSE i \in 1..Len(req.Actions) :
                 \A j \in 1..Len(req.Actions) :
                     ClaimedActionRisk(req.Actions[j]) <= ClaimedActionRisk(req.Actions[i])])
    ELSE RiskLevelNone

\* C11: a request that passes the allowlist, path and keyword rules is denied
\* by the override gate (reason "High risk action ... requires explicit
\* override", carrying the risk) exactly when its risk is at least 7 and override
\* is false; with override set the gate never denies.
C11_OverrideGate ==
    (vdone /\ vreq # NilRequest /\ PassesRules(vreq)) =>
        /\ (vres.Reason.fmt = FmtOverride)
               <=> (ClaimedRisk(vreq) >= RiskLevelHigh /\ ~vreq.Override)
        /\ vres.Reason.fmt = FmtOverride
               => (~vres.Valid /\ vres.Blocked /\ vres.RiskLevel = ClaimedRisk(vreq)
                   /\ vres.Reason.d = ClaimedRisk(vreq))
        /\ vreq.Override => vres.Reason.fmt # FmtOverride

\* C11 witness: a request of risk exactly 7 without override was denied by the gate.
C11_Witness ==
    /\ vdone /\ vreq # NilRequest /\ PassesRules(vreq)
    /\ ClaimedRisk(vreq) = RiskLevelHigh /\ ~vreq.Override
    /\ vres.Reason.fmt = FmtOverride /\ ~vres.Valid

\* ---------------------------------------------------------------- risk level
\* C12 (as amended): a decision that passes the allowlist, path and keyword
\* rules carries the maximum of its actions' risks (the supplied risk when one
\* above 0 is supplied, else the base risk of the type); a decision denied by
\* one of those rules carries risk 10; an empty action list yields risk 0 and
\* is valid and not blocked unless the focus gate denies it.
C12_RiskIsMaximumWhenRulesPass ==
    (vdone /\ vreq # NilRequest) =>
        /\ PassesRules(vreq) => vres.RiskLevel = AmendedRisk(vreq)
        /\ ~PassesRules(vreq) => vres.RiskLevel = RiskLevelCritical
        /\ vreq.Actions = <<>> =>
               /\ vres.RiskLevel = RiskLevelNone
               /\ (vres.Valid /\ ~vres.Blocked) <=> ~FocusMismatch(vreq)

\* C12 witness: a two-action request passed the rules; its second action
\* supplies a risk below 0, which does not count, so that action has its
\* type's risk, and the decision carries the risk of the first, riskier one.
C12_Witness ==
    /\ vdone /\ vreq # NilRequest /\ PassesRules(vreq)
    /\ Len(vreq.Actions) = 2
    /\ vreq.Actions[2].RiskLevel < RiskLevelNone
    /\ AmendedActionRisk(vreq.Actions[2]) = RiskLevelLow
    /\ AmendedActionRisk(vreq.Actions[1]) > AmendedActionRisk(vreq.Actions[2])
    /\ vres.RiskLevel = AmendedActionRisk(vreq.Actions[1])

\* C12 as stated: every decision carries the maximum of its actions' risks, and
\* an empty action list is always valid, not blocked, with risk 0.
C12_RiskIsMaximum ==
    (vdone /\ vreq # NilRequest) =>
        /\ vres.RiskLevel = ClaimedRisk(vreq)
        /\ vreq.Actions = <<>> =>
               (vres.Valid /\ ~vres.Blocked /\ vres.RiskLevel = RiskLevelNone)

\* ------------------------------------------------------------ keyword sweep
\* Every keyword configured anywhere: the validator's list and the safety
\* checker's list.
ConfiguredKeywords ==
    {BlockedKeywords[k] : k \in 1..Len(BlockedKeywords)}
    \cup {SafetyKeywords[k] : k \in 1..Len(SafetyKeywords)}

HasKeyword(str) == \E kw \in ConfiguredKeywords : Contains(ToLower(str), kw)

IsSpeak(a) == ToUpper(a.Type) = T_SPEAK

\* A keyword occurs in the type or in a payload value of a non-SPEAK action, or
\* in the intent.
KeywordOccurs(req) ==
    \/ HasKeyword(req.Intent)
    \/ \E i \in 1..Len(req.Actions) :
           /\ ~IsSpeak(req.Actions[i])
           /\ \/ HasKeyword(req.Actions[i].Type)
              \/ \E f \in 1..Len(req.Actions[i].Payload.fields) :
                     HasKeyword(req.Actions[i].Payload.fields[f].val)

\* C13 as stated: a request in which a configured keyword occurs in a non-SPEAK
\* action's type or payload values, or in the intent, is denied with risk 10.
C13_KeywordDenied ==
    (vdone /\ vreq # NilRequest /\ KeywordOccurs(vreq)) =>
        (~vres.Valid /\ vres.Blocked /\ vres.RiskLevel = RiskLevelCritical)

\* C14 as stated: a request whose actions are all SPEAK with a text payload,
\* with no expected window, is approved whatever the payloads contain.
C14_SpeakExempt ==
    (/\ vdone /\ vreq # NilRequest
     /\ vreq.Actions # <<>> /\ vreq.ExpectedWindow = <<>>
     /\ ~HasKeyword(vreq.Intent)
     /\ \A i \in 1..Len(vreq.Actions) :
            /\ IsSpeak(vreq.Actions[i])
            /\ vreq.Actions[i].Target = <<>>
            /\ vreq.Actions[i].Payload.raw = "object")
    => (vres.Valid /\ ~vres.Blocked)

\* ---------------------------------------------------------------- focus gate
\* C15 as stated: a request with a non-empty expected window is denied unless
\* the lower-cased focused window contains the lower-cased expected window, in
\* every focus state, the one before any focus was set included.
C15_FocusMismatchDenied ==
    (/\ vdone /\ vreq # NilRequest
     /\ vreq.ExpectedWindow # <<>>
     /\ ~Contains(ToLower(focusedWindow), ToLower(vreq.ExpectedWindow)))
    => (~vres.Valid /\ vres.Blocked)

\* C16 as stated: a call whose frame carries an expected window that the focus
\* the call read does not contain is answered Approved=false, and none of its
\* actions is put on the action channel.
C16_FrameFocusMismatchDenied ==
    \A k \in 1..Len(calls) :
        (/\ "frame" \in DOMAIN calls[k]
         /\ calls[k].frame.ExpectedWindow # <<>>
         /\ ~Contains(ToLower(calls[k].currentWindow),
                      ToLower(calls[k].frame.ExpectedWindow)))
        => /\ calls[k].next = 0
           /\ CommandsOf(calls[k].req.TraceId) = {}
           /\ calls[k].pc = "done" => ~calls[k].response.Approved

\* ------------------------------------------------------------- auto-approval
\* C17 as stated: a new proposal is auto-approved exactly when the user mode
\* of its domain is AUTO, its risk score is below 30 and the system mode is
\* ACTIVE; otherwise it is held as WAITING_FOR_USER.
C17_AutoApproveExactlyWhen ==
    [][Len(proposals') > Len(proposals) =>
          LET p == proposals'[Len(proposals')]
              auto == p.status = "EXECUTING"
          IN /\ auto <=> (/\ GetUserMode("*") = "AUTO"
                          /\ p.risk_score < AutoApproveRisk
                          /\ appState = "ACTIVE")
             /\ ~auto => p.status = "WAITING_FOR_USER"]_vars

\* ---------------------------------------------------------------- decisions
\* C18 as stated: once a proposal has been decided APPROVED, a command is
\* eventually on the action channel or sent on the Sentinel stream.
C18_ApprovedEventuallyEnqueued ==
    \A id \in 1..MaxProposals :
        (id \in DOMAIN proposals /\ proposals[id].status = "APPROVED")
            ~> (actionChan # <<>> \/ sent # <<>>)

\* C19 as stated: a reply takes effect only on a proposal in
\* WAITING_FOR_CONTEXT, which it moves to PENDING with the message stored; a
\* proposal in any other status never gets a user response.
C19_ReplyOnlyWhenWaitingForContext ==
    [][\A id \in DOMAIN proposals :
          /\ proposals'[id].user_response # proposals[id].user_response
             => proposals[id].status = "WAITING_FOR_CONTEXT"
          /\ \A q \in 1..Len(httpCalls) :
                (httpCalls[q].id = id /\ handleReply_UpdateActionStatus(q))
                => /\ proposals[id].status = "WAITING_FOR_CONTEXT"
                   /\ proposals'[id].status = "PENDING"]_vars

\* -------------------------------------------------------------------- reflex
\* C20: GetReflex(intent) returns a plan only if some row of that intent has
\* success_count > 5 and a non-empty cached_plan; right after
\* InvalidateReflex(intent) it returns none; and it goes from none to a plan
\* only in the write of a RecordSuccess for that intent with a non-empty plan.
C20_ReflexOnlyTrustedUntilRecorded ==
    [][\A intent \in {I_open, I_delete} :
          /\ getReflex(intentHistory', intent) # NoReflex
             => \E id \in 1..Len(intentHistory') :
                    /\ intentHistory'[id].intent = intent
                    /\ intentHistory'[id].success_count > 5
                    /\ intentHistory'[id].cached_plan \notin {SqlNull, <<>>}
                    /\ intentHistory'[id].cached_plan = getReflex(intentHistory', intent).plan
          /\ InvalidateReflex(intent) => getReflex(intentHistory', intent) = NoReflex
          /\ (getReflex(intentHistory, intent) = NoReflex
              /\ getReflex(intentHistory', intent) # NoReflex)
             => \E j \in 1..Len(recorders) :
                    /\ RecordSuccess_Write(j)
                    /\ recorders[j].intent = intent
                    /\ recorders[j].plan # <<>>]_vars

\* C20 witness: a caller's GetReflex returned none for an intent that has an
\* invalidated row with more than five successes, while a RecordSuccess with a
\* plan for that intent is between its SELECT and its write.
C20_Witness ==
    /\ vreq = [op |-> "GetReflex", intent |-> I_open]
    /\ vres = NoReflex
    /\ \E id \in 1..Len(intentHistory) :
           /\ intentHistory[id].intent = I_open
           /\ intentHistory[id].success_count > 5
           /\ intentHistory[id].cached_plan = SqlNull
    /\ \E j \in 1..Len(recorders) :
           /\ recorders[j].intent = I_open /\ recorders[j].pc = "write"
           /\ recorders[j].plan = P_plan

\* --------------------------------------------------------------------- trust
Windows == {W_Unknown, W_Notepad, W_Chrome}

\* C21: for every (intent, focus) the trust score never decreases, and a
\* proposal that goes from APPROVED to COMPLETED leaves the trust score of its
\* intent strictly greater than before.
C21_TrustMonotonicAndEarned ==
    [][/\ \A intent \in {I_open, I_delete}, w \in Windows :
             GetTrustScore(intentHistory', intent, w) >= GetTrustScore(intentHistory, intent, w)
       /\ \A id \in DOMAIN proposals :
             (proposals[id].status = "APPROVED" /\ proposals'[id].status = "COMPLETED")
             => \E w \in Windows :
                    GetTrustScore(intentHistory', proposals[id].intent, w)
                        > GetTrustScore(intentHistory, proposals[id].intent, w)]_vars

\* The RecordSuccess calls for (intent, window) that have completed.
CompletedRecords(intent, w) ==
    {j \in 1..Len(recorders) :
        /\ recorders[j].pc = "done"
        /\ recorders[j].intent = intent /\ recorders[j].window = w}

\* C22: after any number of RecordSuccess calls for one (intent, window)
\* pair, concurrent ones included, the table holds exactly one row for the
\* pair and its success_count is the number of calls that completed.
C22_UpsertOneRowPerPair ==
    \A intent \in {I_open, I_delete}, w \in Windows :
        CompletedRecords(intent, w) # {}
        => /\ Cardinality(MatchingRows(intent, w)) = 1
           /\ GetTrustScore(intentHistory, intent, w)
                  = Cardinality(CompletedRecords(intent, w))

\* ------------------------------------------------------------- action buffer
\* C23: commands leave the action buffer in the order they were enqueued: a
\* step only appends one command at the tail, which needs a free slot, or
\* hands the command at the head to a StreamActions handler; and an enqueue turn that finds all
\* ActionChanCap slots taken drops its command and leaves the buffer as it was.
C23_BufferFifoDropNewest ==
    [][/\ Len(actionChan') <= ActionChanCap
       /\ \/ actionChan' = actionChan
          \/ /\ Len(actionChan) < ActionChanCap
             /\ \E k \in 1..Len(calls) :
                    /\ calls[k].pc = "enqueue"
                    /\ actionChan' = Append(actionChan,
                           ActionCommand(calls[k].req.TraceId, calls[k].next,
                                         calls[k].req.Actions[calls[k].next + 1]))
          \/ /\ actionChan # <<>>
             /\ actionChan' = Tail(actionChan)
             /\ \E h \in 1..Len(streams) :
                    streams[h].pc = "recv" /\ streams'[h] = Stream("send", Head(actionChan))
       /\ \A k \in 1..Len(calls) :
             (RequestPermission_Enqueue(k) /\ Len(actionChan) = ActionChanCap)
             => actionChan' = actionChan]_vars

\* C23 witness: the buffer is full, nothing has been taken from it yet, and a
\* later call has gone through an enqueue turn whose command is not in it.
C23_Witness ==
    /\ Len(actionChan) = ActionChanCap
    /\ sent = <<>>
    /\ actionChan[1].CommandId = [trace |-> TraceIds[1], index |-> 0]
    /\ \E k \in 1..Len(calls) :
           /\ calls[k].next >= 1
           /\ \A i \in 1..Len(actionChan) :
                  actionChan[i].CommandId # [trace |-> calls[k].req.TraceId, index |-> 0]

\* ------------------------------------------------------------ approval order
\* C24: GetApprovedActions lists every APPROVED or EXECUTING proposal, and a
\* proposal that moves from APPROVED to EXECUTING keeps its place: the list
\* is the same before and after that step.
C24_ApprovalOrderKept ==
    [][/\ {GetApprovedActions(proposals')[i] :
               i \in 1..Len(GetApprovedActions(proposals'))}
           = {x \in DOMAIN proposals' : proposals'[x].status \in {"APPROVED", "EXECUTING"}}
       /\ \A id \in DOMAIN proposals :
             (proposals[id].status = "APPROVED" /\ proposals'[id].status = "EXECUTING")
             => GetApprovedActions(proposals') = GetApprovedActions(proposals)]_vars

\* ------------------------------------------------------------------- gateway
\* A client's last line was a well-formed frame.
IsCall(l) == l.frame.kind = "frame" /\ l.frame.jsonrpc = "2.0"

\* C25: a connect frame whose token does not match the server's closes the
\* connection.
C25_FailedConnectCloses ==
    \A c \in 1..Len(clients) :
        LET l == clients[c].last
        IN (IsCall(l) /\ l.frame.method = "connect" /\ l.frame.params.ok
            /\ l.frame.params.Token # authToken)
           => ~clients[c].open

\* C26: the server's token is a secret of TokenLen characters that a token
\* file holds, and no connect frame with an empty token is accepted.
C26_SecretNeverEmpty ==
    /\ Len(authToken) = TokenLen
    /\ \E f \in DOMAIN tokenFiles :
           tokenFiles[f] # NoFile /\ TrimSpace(tokenFiles[f]) = authToken
    /\ \A c \in 1..Len(clients) :
           LET l == clients[c].last
           IN (IsCall(l) /\ l.frame.method = "connect" /\ l.frame.params.ok
               /\ l.frame.params.Token = <<>>)
              => l.code # 0 /\ ~clients[c].Authenticated

\* C27: an authenticated client's call to a method outside its capability set
\* is refused with permission denied and no handler runs.
C27_CapabilitiesEnforced ==
    \A c \in 1..Len(clients) :
        LET l == clients[c].last
        IN (IsCall(l) /\ l.frame.method # "connect" /\ clients[c].Authenticated
            /\ l.frame.method \notin clients[c].Capabilities)
           => l.code = ErrCodePermissionDenied /\ l.ran = ""

\* C28: in every turn of a connection's loop, a malformed line gets a parse
\* error and the connection stays open; a call to an unknown method on an
\* authenticated connection gets method not found; and a call other than
\* connect on a connection that has not authenticated gets auth failed, runs
\* no handler and changes nothing else.
C28_FrameErrors ==
    [][\A c \in 1..Len(clients) :
          clients'[c].frames = clients[c].frames + 1
          => LET l == clients'[c].last
             IN /\ l.frame.kind = "malformed"
                   => /\ l.code = ErrCodeParseError /\ l.ran = ""
                      /\ clients'[c].open
                /\ (IsCall(l) /\ clients[c].Authenticated
                    /\ l.frame.method \notin Handlers)
                   => l.code = ErrCodeMethodNotFound /\ l.ran = ""
                /\ (IsCall(l) /\ ~clients[c].Authenticated
                    /\ l.frame.method # "connect")
                   => /\ l.code = ErrCodeAuthFailed /\ l.ran = ""
                      /\ ~clients'[c].Authenticated
                      /\ proposals' = proposals]_vars

\* C28 witness: a connection that never authenticated asked to approve the
\* proposal that waits for the user, and was answered auth failed.
C28_Witness ==
    /\ Len(proposals) >= 1 /\ proposals[1].status = "WAITING_FOR_USER"
    /\ \E c \in 1..Len(clients) :
           /\ ~clients[c].Authenticated /\ clients[c].open
           /\ clients[c].last.frame.kind = "frame"
           /\ clients[c].last.frame.method = "exec.resolve"
           /\ clients[c].last.code = ErrCodeAuthFailed

\* ----------------------------------------------------------------- audit log
\* C29: the audit log never holds more than AuditLogMax entries; an append to
\* a log with room adds the entry at the end, and an append to a full log
\* leaves the AuditLogKeep most recent entries, the new one last, in their
\* original order.
C29_AuditLogBounded ==
    [][/\ Len(auditLog') <= AuditLogMax
       /\ auditLog' # auditLog
          => LET e == AuditEntry(vreq', vres')
             IN IF Len(auditLog) < AuditLogMax
                THEN auditLog' = Append(auditLog, e)
                ELSE /\ Len(auditLog') = AuditLogKeep
                     /\ auditLog'[AuditLogKeep] = e
                     /\ \A i \in 1..(AuditLogKeep - 1) :
                            auditLog'[i] = auditLog[Len(auditLog) - AuditLogKeep + 1 + i]]_vars

\* C29 witness: a validation found the log full and left the request's entry
\* last of AuditLogKeep, the first being the 502nd of the entries before.
C29_Witness ==
    /\ vdone /\ vreq # NilRequest
    /\ Len(auditLog) = AuditLogKeep
    /\ auditLog[AuditLogKeep] = AuditEntry(vreq, vres)
    /\ auditLog[1].Intent = Decimal(AuditLogMax - AuditLogKeep + 2)

\* --------------------------------------------------------------------- focus
\* C30: the focus the validator uses is the focus tracker's record at all
\* times: "Unknown" from cold start, then the title of the last report.
C30_ValidatorFocusIsTracked ==
    focusedWindow = focusState

\* -------------------------------------------------------------- reflex hit
\* The submissions of ("open notes", "Notepad") that are approved and recorded.
SubmissionsDone ==
    PriorSubmissions + Cardinality(CompletedRecords(I_open, W_Notepad))

\* C31: once six submissions of one (intent, focus) are approved and
\* completed, and the store counts six successes for the pair, getReflex of
\* the intent returns a non-empty cached plan with trust score 6; after only
\* five it returns none.
C31_ReflexAfterSixSubmissions ==
    /\ (SubmissionsDone = 6 /\ GetTrustScore(intentHistory, I_open, W_Notepad) = 6)
       => /\ getReflex(intentHistory, I_open).plan # <<>>
          /\ getReflex(intentHistory, I_open).count = 6
    /\ SubmissionsDone = 5 => getReflex(intentHistory, I_open) = NoReflex

\* ------------------------------------------------------- decision ranges
\* C32: every decision ValidateAction returns has its risk level within
\* 0..10 and its trust score within 0..100, whatever risk the request's
\* actions declare and however many successes were recorded.
C32_DecisionRanges ==
    vdone => /\ vres.RiskLevel \in 0..RiskLevelCritical
             /\ vres.TrustScore \in 0..100

\* ------------------------------------------------------------ determinism
\* C33: once a request is validated, validating it again under the same
\* focus returns the same decision, whatever was validated or recorded in
\* between (the focus changes only before the first validation).
C33_SameInputsSameDecision ==
    [][vdone => vres' = vres]_vars

\* The request is denied by the allowlist or the path rule: the first rule
\* that one of its actions fails, in the order the actions are examined.
DeniedBeforeTrust(req) ==
    /\ FailingActions(req) # {}
    /\ FirstRuleFailed(req.Actions[FirstFailing(req)]) \in {FmtAllowlist, FmtPath}

\* C33 (as amended): validating the same request again under the same focus
\* returns the same valid, blocked, reason, risk level and override; the trust
\* score of a decision denied by the allowlist or path rule is 0, and of every
\* other decision it is the intent's score at that validation (0 before any
\* recorded success, at most 100), so it is never lower in the later decision.
C33_SameVerdictTrustFollows ==
    [][/\ vdone => /\ [vres' EXCEPT !.TrustScore = 0] = [vres EXCEPT !.TrustScore = 0]
                   /\ vres'.TrustScore >= vres.TrustScore
       /\ T_ValidateAction =>
              /\ vres'.TrustScore = IF DeniedBeforeTrust(vreq) THEN 0
                                    ELSE getTrustScore(trustScores, vreq.Intent)
              /\ vres'.TrustScore \in 0..100]_vars

\* C33 witness: the request was validated at least twice, another request in
\* between, and its latest decision carries a trust score recorded meanwhile.
C33_Witness ==
    /\ vdone
    /\ Len(auditLog) = MaxValidations
    /\ auditLog[1].RequestID = "req" /\ auditLog[2].RequestID = "other"
    /\ auditLog[3].RequestID = "req"
    /\ vres.TrustScore = 20

\* ----------------------------------------------------------- safety checker
\* An action the policy refuses: EXEC, SHELL, or a type outside the allowlist.
Refused(config, action) ==
    \/ ToUpper(action.Type) \in {T_EXEC, T_SHELL}
    \/ ToUpper(action.Type) \notin config.AllowedActions

\* C34: with safe mode off IsDangerous returns false for every intent and
\* ValidateAction and ValidateActions accept every action, EXEC and SHELL
\* included; with safe mode on an action of type EXEC or SHELL or of a type
\* outside the allowlist is rejected, alone or in a list.
C34_SafeModeSwitch ==
    vdone =>
        /\ ~vreq.config.SafeMode =>
               vres.ok = (vres.op # "IsDangerous")
        /\ (vreq.config.SafeMode /\ vres.op = "ValidateAction"
                /\ Refused(vreq.config, vreq.actions[1])) => ~vres.ok
        /\ (vreq.config.SafeMode /\ vres.op = "ValidateActions"
                /\ \E i \in 1..Len(vreq.actions) : Refused(vreq.config, vreq.actions[i]))
               => ~vres.ok

\* C34 witness: with safe mode off a list holding an EXEC action was accepted.
C34_Witness ==
    /\ vdone /\ vres.op = "ValidateActions" /\ vres.ok
    /\ ~vreq.config.SafeMode
    /\ \E i \in 1..Len(vreq.actions) : vreq.actions[i].Type = T_EXEC

\* ------------------------------------------------------ SEARCH and its path
\* A payload object with a safe string under "path" and no "directory" key.
PathOnly(a) ==
    /\ a.Payload.raw = "object"
    /\ ~HasKey(a.Payload, K_directory)
    /\ HasKey(a.Payload, K_path)
    /\ GetField(a.Payload, K_path).str
    /\ validateFileSystemPath(GetField(a.Payload, K_path).val)

\* C35: validateActionPath accepts a SEARCH action, as it accepts a LIST
\* action, whose payload has a safe "path" and no "directory": a request of
\* one such action is not denied by the path rule.
C35_SearchFallsBackToPath ==
    (vdone /\ vreq # NilRequest) =>
        \A i \in 1..Len(vreq.Actions) :
            (ToUpper(vreq.Actions[i].Type) \in {T_SEARCH, T_LIST} /\ PathOnly(vreq.Actions[i]))
            => /\ validateActionPath(vreq.Actions[i]) = NoErr
               /\ vres.Reason.fmt # FmtPath

\* ------------------------------------------------- high risk and the stream
\* The commands on the action channel, inside a Send, or sent on a stream.
StreamCommands ==
    {actionChan[i] : i \in 1..Len(actionChan)} \cup Taken \cup {sent[i] : i \in 1..Len(sent)}

\* The risk of the action a command carries, as it was submitted: for an
\* exec.request frame the frame's action, which may supply a risk; a
\* RequestPermission action has only its type.
SubmittedRisk(cmd) ==
    LET k == CHOOSE k \in 1..Len(calls) : calls[k].req.TraceId = cmd.CommandId.trace
    IN IF "frame" \in DOMAIN calls[k]
       THEN ClaimedActionRisk(calls[k].frame.Actions[cmd.CommandId.index + 1])
       ELSE ClaimedTypeRisk(cmd.Action)

\* C36 as stated: no command on the action channel or the stream carries a
\* WRITE or EDIT action, or any other action whose risk (the supplied one,
\* else the base risk of its type) is HIGH or above, whether it was submitted
\* to RequestPermission or in an exec.request frame.
C36_NoHighRiskOnStream ==
    \A cmd \in StreamCommands :
        /\ ToUpper(cmd.Action.Type) \notin {T_WRITE, T_EDIT}
        /\ SubmittedRisk(cmd) < RiskLevelHigh

\* --------------------------------------------------- approved and enqueued
\* C37: at the step in which a RequestPermission call returns Approved, a
\* command for every action of its proposal is on the action channel, with a
\* StreamActions handler, or was sent on a stream.
C37_ApprovedMeansAllEnqueued ==
    [][\A k \in 1..Len(calls) :
          (calls[k].pc = "enqueue" /\ calls'[k].pc = "done" /\ calls'[k].response.Approved)
          => \A i \in 0..(Len(calls[k].req.Actions) - 1) :
                 \/ \E n \in 1..Len(actionChan') :
                        actionChan'[n].CommandId = [trace |-> calls[k].req.TraceId, index |-> i]
                 \/ \E n \in 1..Len(sent') :
                        sent'[n].CommandId = [trace |-> calls[k].req.TraceId, index |-> i]
                 \/ \E cmd \in Taken' :
                        cmd.CommandId = [trace |-> calls[k].req.TraceId, index |-> i]]_vars

\* ------------------------------------------------ proposals on the stream
\* The commands in the order they go out: those sent, in the order their
\* sends returned, then those waiting on the channel.
StreamOrder == sent \o actionChan

\* C38: on the action stream the commands of one proposal are in the
\* proposal's action order and contiguous: no command of another proposal
\* lies between two of them.
C38_ProposalsNotInterleaved ==
    \A i, j \in 1..Len(StreamOrder) :
        (i < j /\ StreamOrder[i].CommandId.trace = StreamOrder[j].CommandId.trace)
        => /\ StreamOrder[i].CommandId.index < StreamOrder[j].CommandId.index
           /\ \A n \in i..j :
                  StreamOrder[n].CommandId.trace = StreamOrder[i].CommandId.trace

\* ------------------------------------------------------ delivery of commands
\* C39: a command that a StreamActions handler has taken from the action
\* channel is not lost: after every step it is still with a handler or it is
\* among the commands sent, and no command is sent twice.
C39_TakenCommandDelivered ==
    [][/\ \A cmd \in Taken : cmd \in Taken' \cup {sent'[i] : i \in 1..Len(sent')}
       /\ \A i, j \in 1..Len(sent') : sent'[i] = sent'[j] => i = j]_vars

\* ------------------------------------------------------------- system mode
\* C40: once every SetState call has returned, the cached mode GetState
\* returns is the mode persisted in app_state; and a SetState with an invalid
\* mode returns an error and changes neither.
C40_CacheMatchesDatabase ==
    /\ (\A j \in 1..Len(setters) : setters[j].pc # "cache") => appState = dbState
    /\ \A j \in 1..Len(setters) :
           setters[j].pc = "error"
           => (setters[j].state \notin AppStates /\ dbState # setters[j].state
                  /\ appState # setters[j].state)

====
